---- MODULE Spec2Model ----
(***************************************************************************)
(* QuantOracle: the model registry (quant/registry.py), its writers        *)
(* (scripts/publish_eod.py, scripts/train_ridge.py), its reader            *)
(* (quant/rank.py), the remote artifact sync                               *)
(* (frontend/services/remote_artifacts.py) and the long/short portfolio    *)
(* constructor (quant/portfolio.py).                                       *)
(*                                                                         *)
(* Numbers.  The portfolio code computes in binary floating point.  The    *)
(* model computes in exact rationals <<numerator, denominator>>.  The      *)
(* source's guards 1e-12 (the offset added to every unconstrained weight,  *)
(* and `tol`) are far below every tolerance the properties use (1e-9,      *)
(* 1e-6); the model carries them as an infinitesimal: a quantity is a      *)
(* record [r |-> standard part, e |-> TRUE iff a positive 1e-12-sized part *)
(* is present], and a comparison against `tol` is a comparison of the      *)
(* standard part against 0.                                                *)
(***************************************************************************)
EXTENDS Integers, Sequences, FiniteSets, TLC

----------------------------------------------------------------------------
(* Exact rational arithmetic.                                              *)

Abs(n) == IF n < 0 THEN -n ELSE n

RECURSIVE GCD(_, _)
GCD(a, b) == IF b = 0 THEN a ELSE GCD(b, a % b)

RNorm(n, d) ==
    LET g == GCD(Abs(n), d)
    IN  IF n = 0 THEN <<0, 1>> ELSE <<n \div g, d \div g>>

R(n, d)    == RNorm(n, d)
RInt(n)    == <<n, 1>>
RZero      == <<0, 1>>
RAdd(a, b) == RNorm(a[1] * b[2] + b[1] * a[2], a[2] * b[2])
RSub(a, b) == RNorm(a[1] * b[2] - b[1] * a[2], a[2] * b[2])
RMul(a, b) == RNorm(a[1] * b[1], a[2] * b[2])
RDiv(a, b) == IF b[1] > 0 THEN RNorm(a[1] * b[2], a[2] * b[1])
                          ELSE RNorm(-(a[1] * b[2]), a[2] * (-b[1]))
RLe(a, b)  == a[1] * b[2] <= b[1] * a[2]
RLt(a, b)  == a[1] * b[2] < b[1] * a[2]
RMin(a, b) == IF RLt(b, a) THEN b ELSE a
RMax(a, b) == IF RLt(a, b) THEN b ELSE a

----------------------------------------------------------------------------
(* quant/portfolio.py                                                      *)
(*                                                                         *)
(* A float is Val: [r |-> rational standard part, e |-> sign in {-1,0,1} of *)
(* a 1e-12-sized part].  A dict is a sequence of [k |-> key, v |-> value]  *)
(* in iteration order, keys distinct.                                      *)

Val(r, e) == [r |-> r, e |-> e]
VZero     == Val(RZero, 0)
Sgn(n)    == IF n > 0 THEN 1 ELSE IF n < 0 THEN -1 ELSE 0

\* bool(v): a float is truthy iff it is not 0.0
Truthy(v) == v.r[1] # 0 \/ v.e # 0
\* np.sign(v)
SignOf(v) == IF v.r[1] # 0 THEN Sgn(v.r[1]) ELSE v.e
\* np.abs(v); the 1e-12 part only counts when the standard part is 0
AbsOf(v)  == IF v.r[1] # 0 THEN Val(<<Abs(v.r[1]), v.r[2]>>, 0) ELSE Val(RZero, Abs(v.e))
\* float(s * a)
Signed(s, a) == Val(<<s * a.r[1], a.r[2]>>, s * a.e)
\* a + b of two floats
VAdd(a, b) == Val(RAdd(a.r, b.r), Sgn(a.e + b.e))

RECURSIVE RSumSet(_, _)
RSumSet(f, S) ==
    IF S = {} THEN RZero
    ELSE LET x == CHOOSE y \in S : TRUE
         IN  RAdd(f[x], RSumSet(f, S \ {x}))

\* Constraints(long_n, short_n, gross, net, max_abs_weight)
Constraints(ln, sn, g, nt, cap) ==
    [long_n |-> ln, short_n |-> sn, gross |-> g, net |-> nt, max_abs_weight |-> cap]

\* target_gross = min(gross, cap * len(keys))
TargetGrossNoCount(gross, cap, n) == RMin(gross, cap)
TargetGross(gross, cap, n) == RMin(gross, RMul(cap, RInt(n)))

\* np.minimum(cand, cap) for one name
ClipCapUnclipped(cand, cap) == cand
ClipCap(cand, cap) == IF RLt(cap, cand.r) THEN Val(cap, 0) ELSE cand

\* p = abs0 / s0
Proportions(abs0) ==
    LET n == Len(abs0)
        S == RSumSet([i \in 1..n |-> abs0[i].r], 1..n)
    IN  [i \in 1..n |->
            IF S[1] > 0
            THEN Val(RDiv(abs0[i].r, S), abs0[i].e)
            ELSE Val(R(1, n), 0)]

\* the body of `for _ in range(len(keys))`, from iteration number `it` on;
\* the result is <<alloc, free, iterations entered>>
RECURSIVE ClipLoop(_, _, _, _, _, _)
ClipLoop(it, alloc, free, p, target, cap) ==
    LET n         == Len(p)
        frozen    == (1..n) \ free
        remaining == RSub(target, RSumSet([i \in 1..n |-> alloc[i].r], frozen))
        p_sum     == RSumSet([i \in 1..n |-> p[i].r], free)
        even      == Val(RMin(cap, RDiv(remaining, RInt(Cardinality(free)))), 0)
        cand      == [i \in 1..n |->
                        IF i \in free /\ p_sum[1] > 0
                        THEN LET c == RMul(remaining, RDiv(p[i].r, p_sum))
                             IN  Val(c, IF c[1] = 0 THEN p[i].e ELSE 0)
                        ELSE VZero]
        over      == {i \in free : RLt(cap, cand[i].r)}
        clipped   == [i \in 1..n |-> IF i \in free THEN ClipCap(cand[i], cap) ELSE alloc[i]]
    IN  IF it >= n            THEN <<alloc, free, it>>
        ELSE IF free = {}     THEN <<alloc, free, it>>
        ELSE IF remaining[1] <= 0 THEN <<alloc, free, it>>
        ELSE IF p_sum[1] <= 0
             THEN <<[i \in 1..n |-> IF i \in free THEN even ELSE alloc[i]], free, it + 1>>
        ELSE IF over = {}     THEN <<clipped, free, it + 1>>
        ELSE ClipLoop(it + 1, clipped, free \ over, p, target, cap)

\* one pass through the body of `for _ in range(len(keys))`: the new alloc
\* and free, and whether the pass ended in a `break`; `freeze` says whether
\* `free[free_idx[over]] = False` is executed
ClipPass(alloc, free, p, target, cap, freeze) ==
    LET n         == Len(p)
        frozen    == (1..n) \ free
        remaining == RSub(target, RSumSet([i \in 1..n |-> alloc[i].r], frozen))
        p_sum     == RSumSet([i \in 1..n |-> p[i].r], free)
        even      == Val(RMin(cap, RDiv(remaining, RInt(Cardinality(free)))), 0)
        cand      == [i \in 1..n |->
                        IF i \in free /\ p_sum[1] > 0
                        THEN LET c == RMul(remaining, RDiv(p[i].r, p_sum))
                             IN  Val(c, IF c[1] = 0 THEN p[i].e ELSE 0)
                        ELSE VZero]
        over      == {i \in free : RLt(cap, cand[i].r)}
        clipped   == [i \in 1..n |-> IF i \in free THEN ClipCap(cand[i], cap) ELSE alloc[i]]
    IN  IF free = {}              THEN [alloc |-> alloc, free |-> free, brk |-> TRUE]
        ELSE IF remaining[1] <= 0 THEN [alloc |-> alloc, free |-> free, brk |-> TRUE]
        ELSE IF p_sum[1] <= 0
             THEN [alloc |-> [i \in 1..n |-> IF i \in free THEN even ELSE alloc[i]],
                   free |-> free, brk |-> TRUE]
        ELSE IF over = {}         THEN [alloc |-> clipped, free |-> free, brk |-> TRUE]
        ELSE [alloc |-> clipped, free |-> IF freeze THEN free \ over ELSE free, brk |-> FALSE]

ClipIterationNoFreeze(alloc, free, p, target, cap) ==
    ClipPass(alloc, free, p, target, cap, FALSE)
ClipIteration(alloc, free, p, target, cap) ==
    ClipPass(alloc, free, p, target, cap, TRUE)

RECURSIVE KeepTruthy(_)
KeepTruthy(w) ==
    IF w = <<>> THEN <<>>
    ELSE IF Truthy(w[1].v) THEN <<w[1]>> \o KeepTruthy(Tail(w))
         ELSE KeepTruthy(Tail(w))

\* _clip_and_renorm(w, gross, max_abs) -> dict
clip_and_renorm(w, gross, max_abs) ==
    IF w = <<>> \/ gross[1] <= 0 \/ max_abs[1] <= 0 THEN <<>>
    ELSE
    LET items == KeepTruthy(w)
        n     == Len(items)
        abs0  == [i \in 1..n |-> AbsOf(items[i].v)]
        target == TargetGross(gross, max_abs, n)
        res   == ClipLoop(0, [i \in 1..n |-> VZero], 1..n, Proportions(abs0), target, max_abs)
        alloc == res[1]
        outAt(i) == [k |-> items[i].k, v |-> Signed(SignOf(items[i].v), alloc[i])]
        RECURSIVE Out(_)
        Out(i) == IF i > n THEN <<>>
                  ELSE IF Truthy(alloc[i]) THEN <<outAt(i)>> \o Out(i + 1)
                  ELSE Out(i + 1)
    IN  IF items = <<>> THEN <<>> ELSE Out(1)

\* a risk_proxies entry: the key may be missing
RiskAbsent == [kind |-> "absent", r |-> RZero]
RiskNum(r) == [kind |-> "num", r |-> r]
\* float("nan"), float("inf") as a risk value
RiskNaN    == [kind |-> "nan", r |-> RZero]
RiskInf    == [kind |-> "inf", r |-> RZero]

\* `s in risks and risks[s] and np.isfinite(risks[s])`
Eligible(risk) == risk.kind = "num" /\ risk.r[1] # 0

\* mu / (float(risks[s]) ** 2 + 1e-12); the risk is not 0 here
Score(mu, risk) == RDiv(mu, RMul(risk.r, risk.r))

RECURSIVE Scored(_, _)
Scored(preds, risks) ==
    IF preds = <<>> THEN <<>>
    ELSE LET s == preds[1].k
         IN  IF Eligible(risks[s])
             THEN <<[k |-> s, v |-> Score(preds[1].v, risks[s])]>> \o Scored(Tail(preds), risks)
             ELSE Scored(Tail(preds), risks)

\* list.sort(key=score, reverse=True): stable, equal scores keep their order
RECURSIVE InsertDesc(_, _)
InsertDesc(sorted, x) ==
    IF sorted = <<>> THEN <<x>>
    ELSE IF RLt(sorted[1].v, x.v) THEN <<x>> \o sorted
         ELSE <<sorted[1]>> \o InsertDesc(Tail(sorted), x)

RECURSIVE SortDesc(_)
SortDesc(s) ==
    IF s = <<>> THEN <<>>
    ELSE InsertDesc(SortDesc(SubSeq(s, 1, Len(s) - 1)), s[Len(s)])

Keys(m) == {m[i].k : i \in DOMAIN m}

RECURSIVE DropKeys(_, _)
DropKeys(m, ks) ==
    IF m = <<>> THEN <<>>
    ELSE IF m[1].k \in ks THEN DropKeys(Tail(m), ks)
         ELSE <<m[1]>> \o DropKeys(Tail(m), ks)

RECURSIVE RMaxSeq(_)
RMaxSeq(picks) == IF Len(picks) = 1 THEN picks[1].v ELSE RMax(picks[1].v, RMaxSeq(Tail(picks)))
RECURSIVE RMinSeq(_)
RMinSeq(picks) == IF Len(picks) = 1 THEN picks[1].v ELSE RMin(picks[1].v, RMinSeq(Tail(picks)))

\* v = (v.max() - v) if invert else (v - v.min()), for pick i
SpreadNoInvert(picks, i, invert) == RSub(picks[i].v, RMinSeq(picks))
Spread(picks, i, invert) ==
    IF invert THEN RSub(RMaxSeq(picks), picks[i].v)
              ELSE RSub(picks[i].v, RMinSeq(picks))

\* alloc_side(picks, side_gross, sign, invert)
alloc_side(picks, side_gross, sign, invert, max_abs_weight) ==
    IF picks = <<>> \/ side_gross[1] <= 0 THEN <<>>
    ELSE
    LET v(i) == Spread(picks, i, invert)
        w0   == [i \in 1..Len(picks) |->
                    [k |-> picks[i].k, v |-> Signed(sign, Val(RMax(v(i), RZero), 1))]]
    IN  clip_and_renorm(w0, side_gross, max_abs_weight)

\* long_gross, short_gross of build_long_short
SideBudgetsBothFull(c, hasLongs, hasShorts) ==
    IF hasLongs /\ hasShorts
    THEN LET lg == RMul(R(1, 2), RAdd(c.gross, c.net))
             sg == RMul(R(1, 2), RSub(c.gross, c.net))
         IN  IF lg[1] < 0 \/ sg[1] < 0
             THEN <<c.gross, c.gross>>
             ELSE <<lg, sg>>
    ELSE <<IF hasLongs THEN c.gross ELSE RZero,
           IF hasShorts /\ ~hasLongs THEN c.gross ELSE RZero>>
SideBudgetsNoNet(c, hasLongs, hasShorts) ==
    IF hasLongs /\ hasShorts
    THEN <<RMul(R(1, 2), c.gross), RMul(R(1, 2), c.gross)>>
    ELSE <<IF hasLongs THEN c.gross ELSE RZero,
           IF hasShorts /\ ~hasLongs THEN c.gross ELSE RZero>>
SideBudgetsNetDecides(c, hasLongs, hasShorts) ==
    LET lg == RMul(R(1, 2), RAdd(c.gross, c.net))
        sg == RMul(R(1, 2), RSub(c.gross, c.net))
    IN  IF hasLongs /\ hasShorts /\ lg[1] >= 0 /\ sg[1] >= 0
        THEN <<lg, sg>>
        ELSE <<IF hasLongs /\ c.net[1] >= 0 THEN c.gross ELSE RZero,
               IF hasLongs /\ c.net[1] >= 0 THEN RZero ELSE c.gross>>
SideBudgets(c, hasLongs, hasShorts) ==
    IF hasLongs /\ hasShorts
    THEN LET lg == RMul(R(1, 2), RAdd(c.gross, c.net))
             sg == RMul(R(1, 2), RSub(c.gross, c.net))
         IN  IF lg[1] < 0 \/ sg[1] < 0
             THEN <<IF c.net[1] >= 0 THEN c.gross ELSE RZero,
                    IF c.net[1] >= 0 THEN RZero ELSE c.gross>>
             ELSE <<lg, sg>>
    ELSE <<IF hasLongs THEN c.gross ELSE RZero,
           IF hasShorts /\ ~hasLongs THEN c.gross ELSE RZero>>

IMax(a, b) == IF a > b THEN a ELSE b
IMin(a, b) == IF a < b THEN a ELSE b

\* longs = scored[:long_n]
Longs(scored, c) == SubSeq(scored, 1, IMin(IMax(0, c.long_n), Len(scored)))
\* shorts = scored[-short_n:] without the long keys
ShortsWithOverlap(scored, c) ==
    LET short_n == IMax(0, c.short_n)
    IN  IF short_n = 0 THEN <<>>
        ELSE SubSeq(scored, IMax(1, Len(scored) - short_n + 1), Len(scored))
Shorts(scored, c) ==
    LET short_n == IMax(0, c.short_n)
        tail    == IF short_n = 0 THEN <<>>
                   ELSE SubSeq(scored, IMax(1, Len(scored) - short_n + 1), Len(scored))
    IN  DropKeys(tail, Keys(Longs(scored, c)))

\* w.update(longs); then w[k] = w.get(k, 0.0) + v for each short
RECURSIVE Merge(_, _)
Merge(w, add) ==
    IF add = <<>> THEN w
    ELSE LET x == add[1]
             w2 == IF x.k \in Keys(w)
                   THEN [i \in DOMAIN w |-> IF w[i].k = x.k
                                            THEN [k |-> x.k, v |-> VAdd(w[i].v, x.v)]
                                            ELSE w[i]]
                   ELSE Append(w, x)
         IN  Merge(w2, Tail(add))

\* build_long_short(preds, risks, c) -> dict
build_long_short(preds, risks, c) ==
    LET scored == SortDesc(Scored(preds, risks))
        longs  == Longs(scored, c)
        shorts == Shorts(scored, c)
        b      == SideBudgets(c, longs # <<>>, shorts # <<>>)
        w      == Merge(alloc_side(longs, b[1], 1, FALSE, c.max_abs_weight),
                        alloc_side(shorts, b[2], -1, TRUE, c.max_abs_weight))
    IN  IF Scored(preds, risks) = <<>> THEN <<>> ELSE KeepTruthy(w)

\* sum(abs(x) for x in w.values()), up to the 1e-12 parts
RECURSIVE GrossOf(_)
GrossOf(w) == IF w = <<>> THEN RZero
              ELSE RAdd(AbsOf(w[1].v).r, GrossOf(Tail(w)))

----------------------------------------------------------------------------
(* quant/registry.py, quant/rank.py: one model family, "ridge_h5".         *)
(*                                                                         *)
(* The wall clock counts sub-second ticks.  A version id is the clock's    *)
(* second rendered in fixed-width digits; ids are compared as strings.     *)
(* A data file is missing, partial (opened for writing and truncated, or   *)
(* cut short) or full with the number of the run that produced it.  The    *)
(* LATEST file is missing, empty (opened for writing, nothing flushed yet) *)
(* or holds a version id.                                                  *)

TicksPerSecond == 2

\* strftime("%Y%m%dT%H%M%SZ"): fixed-width decimal digits of the second
StrfTime(sec) == <<sec \div 10, sec % 10>>

\* version_id()
version_id(clock) == StrfTime(clock \div TicksPerSecond)

\* str < str for two strings of the same length
StrLt(a, b) == \E i \in 1..Len(a) :
                  /\ a[i] < b[i]
                  /\ \A j \in 1..(i - 1) : a[j] = b[j]

NoVersion   == <<>>
NoPtr       == [st |-> "missing", v |-> NoVersion]
EmptyPtr    == [st |-> "empty", v |-> NoVersion]
Ptr(v)      == [st |-> "full", v |-> v]
NoFile      == [st |-> "missing", run |-> 0]
PartialFile == [st |-> "partial", run |-> 0]
FullFile(r) == [st |-> "full", run |-> r]

\* read_latest(model_id): None is NoVersion
read_latest(f) ==
    IF f.latest.st = "missing" THEN NoVersion
    ELSE IF f.latest.st = "empty" THEN NoVersion
    ELSE f.latest.v

\* `d if d.exists() else None` of latest_dir, for the version v read before
dir_if_exists(f, v) == IF v \in f.dirs THEN v ELSE NoVersion

\* latest_dir(model_id): the version whose directory is returned, or NoVersion
latest_dir(f) ==
    LET v == read_latest(f)
    IN  IF v = NoVersion THEN NoVersion ELSE dir_if_exists(f, v)

\* load_meta(model_dir): {} when meta.json is missing; json.loads raises on a
\* truncated file
load_meta(f, d) ==
    IF f.meta[d].st = "missing" THEN [out |-> "ok", run |-> 0]
    ELSE IF f.meta[d].st = "partial" THEN [out |-> "raised", run |-> 0]
    ELSE [out |-> "ok", run |-> f.meta[d].run]

\* np.load(d / "model.npz") and the reads of z["w"], z["mu"], ...: raises
\* when the file is missing or is not a complete archive
np_load(f, d) ==
    IF f.npz[d].st = "full" THEN [out |-> "ok", run |-> f.npz[d].run]
    ELSE [out |-> "raised", run |-> 0]

\* what load_ridge_latest returns: (None, None) is "absent"
Absent       == [out |-> "absent", meta |-> 0, art |-> 0]
Raised       == [out |-> "raised", meta |-> 0, art |-> 0]
Loaded(m, a) == [out |-> "ok", meta |-> m, art |-> a]

\* load_ridge_latest(horizon) run on a directory nobody writes meanwhile
load_ridge_latest(f) ==
    LET d == latest_dir(f)
    IN  IF d = NoVersion THEN Absent
        ELSE IF load_meta(f, d).out = "raised" THEN Raised
        ELSE IF np_load(f, d).out = "raised" THEN Raised
        ELSE Loaded(load_meta(f, d).run, np_load(f, d).run)

\* the file-system steps of one publish, in program order:
\* out_dir.mkdir; np.savez (open, write); save_meta (open, write);
\* write_latest (open, write)
PublishStepsPointerFirst ==
    <<"mkdir", "latest_open", "latest_write", "npz_open", "npz_write", "meta_open", "meta_write">>
PublishSteps ==
    <<"mkdir", "npz_open", "npz_write", "meta_open", "meta_write", "latest_open", "latest_write">>

----------------------------------------------------------------------------
(* State.                                                                  *)

VARIABLES
    pf_preds,   \* build_long_short: predicted_returns, a dict in iteration order
    pf_risks,   \* build_long_short: risk_proxies, per symbol
    pf_c,       \* build_long_short: Constraints
    pf_w,       \* build_long_short: the returned weight map
    pf_done     \* build_long_short has returned

pf_vars == <<pf_preds, pf_risks, pf_c, pf_w, pf_done>>

VARIABLES
    clock,      \* wall clock, in ticks
    fs,         \* the data directory: models/ridge_h5/{LATEST, <version>/{model.npz, meta.json}}
    wpc,        \* writer: 0 when no publish runs, else the index of its next step
    wver,       \* writer: the version id of the running publish
    wrun,       \* writer: the number of the running training run
    runs,       \* number of training runs started
    issued,     \* the values version_id() returned, in call order
    pubs,       \* the publishes that completed: [ver, run]
    lastpub,    \* the completed publish whose pointer write was the last one; run 0 if none
    later,      \* a publish was started after lastpub completed
    rpc,        \* reader: position inside load_ridge_latest
    rver,       \* reader: the version read from LATEST
    rmeta,      \* reader: the result of load_meta
    rres,       \* reader: what load_ridge_latest returned
    rpub,       \* reader: a publish had completed when the load began
    loads,      \* number of loads started
    rhist       \* reader: what was published when it read LATEST and when it returned

VARIABLES
    remote,     \* the storage bucket under the EOD prefix
    upc,        \* publisher: 0 when no upload runs, else the index of its next upload
    uver,       \* publisher: model version of the uploading run
    urun,       \* publisher: number of the uploading run
    spc,        \* consumer: position inside sync_eod and the load that follows
    sjson,      \* consumer: the latest.json content sync_eod fetched
    syncs       \* number of sync_eod calls started

s_vars == <<remote, upc, uver, urun, spc, sjson, syncs>>

VARIABLES
    tentry,     \* training: the entry point that is running, "none" when idle
    tdates,     \* training: number of distinct dates of the feature table it read
    thin,       \* the training runs whose feature table had too few dates
    trun        \* training: the data directory when the run began, and how the last run ended

t_vars == <<tentry, tdates, thin, trun>>

VARIABLES
    tb_preds,   \* top_bottom: the predictions frame, rows [k |-> symbol, v |-> pred]
    tb_n,       \* top_bottom: n
    tb_top,     \* top_bottom: the first frame returned
    tb_bottom,  \* top_bottom: the second frame returned
    tb_done,    \* top_bottom has returned
    pr_snapshot, \* predict_ridge: the snapshot frame
    pr_model,   \* predict_ridge: the model dict
    pr_out,     \* predict_ridge: what the call produced
    pr_done,    \* predict_ridge has returned or raised
    bt_close,   \* build_targets: the close series
    bt_horizon, \* build_targets: horizon
    bt_target,  \* build_targets: the returned series
    bt_done     \* build_targets has returned

VARIABLES
    so,         \* sync_ohlcv: environment, remote object, local file, position, result
    cl,         \* _clip_and_renorm: arguments, loop state (alloc, free), result
    ft,         \* the feature table an entry point builds and persists
    pf2         \* build_long_short called again on the same pairs in another order

call_vars == <<so, cl, ft, pf2>>

fn_vars == <<tb_preds, tb_n, tb_top, tb_bottom, tb_done,
             pr_snapshot, pr_model, pr_out, pr_done,
             bt_close, bt_horizon, bt_target, bt_done, call_vars>>

w_vars == <<wpc, wver, wrun, runs, issued, pubs, lastpub, later>>
r_vars == <<rpc, rver, rmeta, rres, rpub, loads, rhist>>

vars == <<pf_vars, t_vars, fn_vars, clock, fs, w_vars, r_vars, s_vars>>

----------------------------------------------------------------------------
(* The registry: one writer (scripts/publish_eod.py _write_model,          *)
(* scripts/train_ridge.py main), one reader (quant/rank.py                 *)
(* load_ridge_latest), one data directory.                                 *)

MaxClock == 3
MaxRuns  == 2
MaxLoads == 2

Versions == { version_id(t) : t \in 0..MaxClock }

EmptyDir ==
    [latest |-> NoPtr, dirs |-> {},
     npz |-> [v \in Versions |-> NoFile], meta |-> [v \in Versions |-> NoFile],
     features |-> NoFile]

NoPublish == [ver |-> NoVersion, run |-> 0]

PortfolioIdle ==
    /\ pf_preds = <<>> /\ pf_risks = <<>> /\ pf_w = <<>> /\ pf_done = FALSE
    /\ pf_c = Constraints(0, 0, RZero, RZero, RZero)

WriterIdle ==
    /\ wpc = 0 /\ wver = NoVersion /\ wrun = 0 /\ runs = 0 /\ issued = <<>>
    /\ pubs = {} /\ lastpub = NoPublish /\ later = FALSE

ReaderIdle ==
    /\ rpc = "idle" /\ rver = NoVersion /\ rmeta = 0 /\ rres = Absent
    /\ rpub = FALSE /\ loads = 0
    /\ rhist = [ptr |-> NoPublish, seen |-> {}, fin |-> {}]

EmptyBucket ==
    [latest_json |-> NoPublish, features |-> NoFile,
     npz |-> [v \in Versions |-> NoFile], meta |-> [v \in Versions |-> NoFile],
     latest |-> NoPtr, ohlcv |-> NoFile]

SyncIdle ==
    /\ remote = EmptyBucket /\ upc = 0 /\ uver = NoVersion /\ urun = 0
    /\ spc = "idle" /\ sjson = NoPublish /\ syncs = 0

TrainIdle ==
    /\ tentry = "none" /\ tdates = 0 /\ thin = {}
    /\ trun = [before |-> EmptyDir, wrote |-> FALSE, stopped |-> "none"]

TopBottomIdle ==
    tb_preds = <<>> /\ tb_n = 0 /\ tb_top = <<>> /\ tb_bottom = <<>> /\ tb_done = FALSE

PredictIdle ==
    /\ pr_snapshot = [cols |-> <<>>, rows |-> <<>>]
    /\ pr_model = [features |-> <<>>, w |-> <<>>, mu |-> <<>>, sig |-> <<>>]
    /\ pr_out = [out |-> "none", rows |-> <<>>] /\ pr_done = FALSE

RankIdle == TopBottomIdle /\ PredictIdle

FeaturesIdle ==
    bt_close = <<>> /\ bt_horizon = 0 /\ bt_target = <<>> /\ bt_done = FALSE

OhlcvIdle ==
    so = [bucket |-> FALSE, url |-> FALSE, remote |-> NoFile, file |-> NoFile,
          pc |-> "idle", ret |-> FALSE, calls |-> 0]

ClipIdle ==
    cl = [w |-> <<>>, gross |-> RZero, cap |-> RZero, pc |-> "idle",
          items |-> <<>>, p |-> <<>>, target |-> RZero,
          alloc |-> <<>>, free |-> {}, it |-> 0, how |-> "", out |-> <<>>]

TableIdle ==
    ft = [entry |-> "none", horizon |-> 0, close |-> <<>>, pc |-> "idle",
          table |-> <<>>, any |-> FALSE, wrote |-> FALSE]
OrderIdle == pf2 = [preds |-> <<>>, w |-> <<>>]

CallsIdle == OhlcvIdle /\ ClipIdle /\ TableIdle /\ OrderIdle

Init ==
    /\ clock = 0 /\ fs = EmptyDir
    /\ WriterIdle /\ ReaderIdle /\ PortfolioIdle /\ SyncIdle
    /\ TrainIdle /\ RankIdle /\ FeaturesIdle /\ CallsIdle

\* time passes
Tick ==
    /\ clock < MaxClock
    /\ clock' = clock + 1
    /\ UNCHANGED <<fs, w_vars, r_vars, pf_vars, t_vars, fn_vars, s_vars>>

\* _write_model / train_ridge.main: v = version_id()
StartPublish ==
    /\ wpc = 0 /\ runs < MaxRuns
    /\ wver' = version_id(clock)
    /\ issued' = Append(issued, version_id(clock))
    /\ runs' = runs + 1 /\ wrun' = runs + 1
    /\ wpc' = 1
    /\ later' = (later \/ lastpub.run # 0)
    /\ UNCHANGED <<clock, fs, pubs, lastpub, r_vars, pf_vars, t_vars, fn_vars, s_vars>>

AtStep(name) == wpc >= 1 /\ PublishSteps[wpc] = name
Advance      == wpc' = IF wpc = Len(PublishSteps) THEN 0 ELSE wpc + 1
WriterFrame  == UNCHANGED <<clock, wver, wrun, runs, issued, r_vars, pf_vars, t_vars, fn_vars, s_vars>>

\* out_dir.mkdir(parents=True, exist_ok=True)
Mkdir ==
    /\ AtStep("mkdir")
    /\ fs' = [fs EXCEPT !.dirs = @ \cup {wver}]
    /\ Advance /\ WriterFrame /\ UNCHANGED <<pubs, lastpub, later>>

\* np.savez(out_dir / "model.npz", ...): the file is created or truncated
SavezOpen ==
    /\ AtStep("npz_open")
    /\ fs' = [fs EXCEPT !.npz[wver] = PartialFile]
    /\ Advance /\ WriterFrame /\ UNCHANGED <<pubs, lastpub, later>>

\* np.savez: the archive is written and closed
SavezWrite ==
    /\ AtStep("npz_write")
    /\ fs' = [fs EXCEPT !.npz[wver] = FullFile(wrun)]
    /\ Advance /\ WriterFrame /\ UNCHANGED <<pubs, lastpub, later>>

\* save_meta: write_text opens meta.json for writing (truncates)
SaveMetaOpen ==
    /\ AtStep("meta_open")
    /\ fs' = [fs EXCEPT !.meta[wver] = PartialFile]
    /\ Advance /\ WriterFrame /\ UNCHANGED <<pubs, lastpub, later>>

\* save_meta: the text is written and the file closed
SaveMetaWrite ==
    /\ AtStep("meta_write")
    /\ fs' = [fs EXCEPT !.meta[wver] = FullFile(wrun)]
    /\ Advance /\ WriterFrame /\ UNCHANGED <<pubs, lastpub, later>>

\* write_latest: write_text opens LATEST for writing (truncates)
WriteLatestOpen ==
    /\ AtStep("latest_open")
    /\ fs' = [fs EXCEPT !.latest = EmptyPtr]
    /\ lastpub' = NoPublish /\ later' = FALSE
    /\ Advance /\ WriterFrame /\ UNCHANGED <<pubs>>

\* write_latest: the version id is written and the file closed
WriteLatestWrite ==
    /\ AtStep("latest_write")
    /\ fs' = [fs EXCEPT !.latest = Ptr(wver)]
    /\ pubs' = pubs \cup {[ver |-> wver, run |-> wrun]}
    /\ lastpub' = [ver |-> wver, run |-> wrun] /\ later' = FALSE
    /\ Advance /\ WriterFrame

\* the publishing process stops between two steps (killed, power loss)
PublishStops ==
    /\ wpc >= 1
    /\ wpc' = 0
    /\ UNCHANGED <<clock, fs, wver, wrun, runs, issued, pubs, lastpub, later, r_vars, pf_vars, t_vars, fn_vars, s_vars>>

ReaderFrame == UNCHANGED <<clock, fs, w_vars, pf_vars, t_vars, fn_vars, s_vars>>

\* load_ridge_latest -> latest_dir -> read_latest
ReadLatest ==
    /\ rpc = "idle" /\ loads < MaxLoads
    /\ loads' = loads + 1
    /\ rpub' = (pubs # {})
    /\ rhist' = [ptr  |-> IF fs.latest.st = "full" THEN lastpub ELSE NoPublish,
                 seen |-> pubs,
                 fin  |-> IF read_latest(fs) = NoVersion THEN pubs ELSE {}]
    /\ rver' = read_latest(fs)
    /\ rmeta' = 0
    /\ IF read_latest(fs) = NoVersion
       THEN rpc' = "done" /\ rres' = Absent
       ELSE rpc' = "dir" /\ rres' = Absent
    /\ ReaderFrame

\* latest_dir: d if d.exists() else None; load_ridge_latest: if not d
LatestDirExists ==
    /\ rpc = "dir"
    /\ IF dir_if_exists(fs, rver) = NoVersion
       THEN rpc' = "done" /\ rres' = Absent
       ELSE rpc' = "meta" /\ rres' = rres
    /\ rhist' = IF rpc' = "done" THEN [rhist EXCEPT !.fin = pubs] ELSE rhist
    /\ UNCHANGED <<rver, rmeta, rpub, loads>> /\ ReaderFrame

\* meta = load_meta(d)
LoadMeta ==
    /\ rpc = "meta"
    /\ IF load_meta(fs, rver).out = "raised"
       THEN rpc' = "done" /\ rres' = Raised /\ rmeta' = rmeta
       ELSE rpc' = "npz" /\ rres' = rres /\ rmeta' = load_meta(fs, rver).run
    /\ rhist' = IF rpc' = "done" THEN [rhist EXCEPT !.fin = pubs] ELSE rhist
    /\ UNCHANGED <<rver, rpub, loads>> /\ ReaderFrame

\* z = np.load(d / "model.npz"); return meta, {...}
NpLoad ==
    /\ rpc = "npz"
    /\ rpc' = "done"
    /\ rres' = IF np_load(fs, rver).out = "raised" THEN Raised
               ELSE Loaded(rmeta, np_load(fs, rver).run)
    /\ rhist' = [rhist EXCEPT !.fin = pubs]
    /\ UNCHANGED <<rver, rmeta, rpub, loads>> /\ ReaderFrame

\* the caller takes the result; the next load may begin
LoadReturns ==
    /\ rpc = "done"
    /\ rpc' = "idle"
    /\ UNCHANGED <<rver, rmeta, rres, rpub, loads, rhist>> /\ ReaderFrame

Next ==
    \/ Tick
    \/ StartPublish \/ Mkdir \/ SavezOpen \/ SavezWrite \/ SaveMetaOpen \/ SaveMetaWrite
    \/ WriteLatestOpen \/ WriteLatestWrite \/ PublishStops
    \/ ReadLatest \/ LatestDirExists \/ LoadMeta \/ NpLoad \/ LoadReturns

Spec == Init /\ [][Next]_vars

----------------------------------------------------------------------------
(* Training runs: scripts/publish_eod.py main (_train_ridge, then          *)
(* _write_model) and scripts/train_ridge.py main (run without --cutoff)    *)
(* read a feature table, fit the model and publish it through the steps    *)
(* above.                                                                  *)

\* publish_eod._train_ridge: `if len(dates) < 50`
MinTrainDates == 50

EntryPoints == {"publish_eod", "train_ridge"}

\* numbers of distinct dates a feature table may hold
DateCounts == {0, 1, MinTrainDates - 1, MinTrainDates}

\* whether the entry point ends the run before fitting: _train_ridge raises
\* SystemExit below MinTrainDates dates; train_ridge.main has no such test
\* and fails only at dates.iloc[...] of a table without any date
TrainingStops(entry, ndates) ==
    IF entry = "publish_eod" THEN ndates < MinTrainDates ELSE ndates = 0

\* the script has built or read its feature table.  publish_eod.main stops
\* with "No features produced" on an empty table and otherwise writes the
\* table to features.parquet (_parquet_write) before it calls _train_ridge; a
\* table that is not empty may still hold no row with a target (nd = 0).
\* train_ridge.main reads features.parquet and writes nothing here.
ReadFeatureTable ==
    /\ tentry = "none" /\ wpc = 0 /\ runs < MaxRuns
    /\ \E e \in EntryPoints, nd \in DateCounts, nonempty \in BOOLEAN :
          /\ nd > 0 => nonempty
          /\ tentry' = e /\ tdates' = nd
          /\ thin' = IF nd < MinTrainDates THEN thin \cup {runs + 1} ELSE thin
          /\ LET wrote == (e = "publish_eod" /\ nonempty)
             IN  /\ fs' = IF wrote THEN [fs EXCEPT !.features = FullFile(runs + 1)] ELSE fs
                 /\ trun' = [before |-> fs, wrote |-> wrote, stopped |-> "none"]
    /\ runs' = runs + 1 /\ wrun' = runs + 1
    /\ UNCHANGED <<clock, wpc, wver, issued, pubs, lastpub, later,
                   r_vars, pf_vars, fn_vars, s_vars>>

\* how a run that TrainingStops ends
StopReason(entry, wrote) ==
    IF entry = "train_ridge" THEN "index_error"
    ELSE IF wrote THEN "not_enough_dates" ELSE "no_features"

\* SystemExit("No features produced ..."), SystemExit("Not enough dates to
\* train ...") / IndexError: the run is over
TrainStops ==
    /\ tentry # "none" /\ TrainingStops(tentry, tdates)
    /\ tentry' = "none"
    /\ trun' = [trun EXCEPT !.stopped = StopReason(tentry, trun.wrote)]
    /\ UNCHANGED <<tdates, thin, clock, fs, w_vars, r_vars, pf_vars, fn_vars, s_vars>>

\* the model is fitted; _write_model / train_ridge.main: v = version_id()
TrainPublishes ==
    /\ tentry # "none" /\ ~TrainingStops(tentry, tdates)
    /\ tentry' = "none"
    /\ wver' = version_id(clock)
    /\ issued' = Append(issued, version_id(clock))
    /\ wpc' = 1
    /\ later' = (later \/ lastpub.run # 0)
    /\ UNCHANGED <<tdates, thin, trun, clock, fs, wrun, runs, pubs, lastpub,
                   r_vars, pf_vars, fn_vars, s_vars>>

NextTrain ==
    \/ Tick
    \/ ReadFeatureTable \/ TrainStops \/ TrainPublishes
    \/ Mkdir \/ SavezOpen \/ SavezWrite \/ SaveMetaOpen \/ SaveMetaWrite
    \/ WriteLatestOpen \/ WriteLatestWrite \/ PublishStops

SpecTrain == Init /\ [][NextTrain]_vars

----------------------------------------------------------------------------
(* The published snapshot: scripts/publish_eod.py main uploads a run to    *)
(* the bucket; frontend/services/remote_artifacts.py sync_eod pulls it     *)
(* into the consumer's data directory, and frontend/views/ml.py then calls *)
(* load_ridge_latest on that directory.  Here fs is the consumer's data    *)
(* directory.                                                              *)

MaxSyncs == 2

\* the uploads with latest.json sent first instead of last
UploadStepsJsonFirst == <<"latest_json", "features", "npz", "meta", "latest", "ohlcv">>

\* the uploads of publish_eod.main, in program order
UploadSteps == <<"features", "npz", "meta", "latest", "ohlcv", "latest_json">>

\* _download(url, out): the parent directory is made first; then the file is
\* left alone (no 200 answer), cut short (the stream breaks) or written whole
DownloadOutcomes(obj) ==
    IF obj.st = "missing" THEN {"fail"} ELSE {"fail", "partial", "ok"}
Downloaded(old, obj, outcome) ==
    IF outcome = "fail" THEN old
    ELSE IF outcome = "partial" THEN PartialFile
    ELSE obj
DownloadedPtr(old, obj, outcome) ==
    IF outcome = "fail" THEN old
    ELSE IF outcome = "partial" THEN EmptyPtr
    ELSE obj

SyncFrame == UNCHANGED <<w_vars, rpc, rver, rmeta, rpub, loads, rhist, pf_vars, t_vars, fn_vars>>

\* publish_eod.main up to the uploads: train, _write_model (v = version_id())
StartUploadRun ==
    /\ upc = 0 /\ runs < MaxRuns
    /\ runs' = runs + 1 /\ urun' = runs + 1
    /\ uver' = version_id(clock)
    /\ issued' = Append(issued, version_id(clock))
    /\ upc' = 1
    /\ UNCHANGED <<clock, fs, remote, spc, sjson, syncs, wpc, wver, wrun, pubs, lastpub, later,
                   r_vars, pf_vars, t_vars, fn_vars>>

AtUpload(name) == upc >= 1 /\ UploadSteps[upc] = name
UploadAdvance  == upc' = IF upc = Len(UploadSteps) THEN 0 ELSE upc + 1
UploadFrame    == UNCHANGED <<clock, fs, uver, urun, spc, sjson, syncs, w_vars, r_vars, pf_vars, t_vars, fn_vars>>

\* sb.upload_bytes(f"{prefix}/features.parquet", ...)
UploadFeatures ==
    /\ AtUpload("features")
    /\ remote' = [remote EXCEPT !.features = FullFile(urun)]
    /\ UploadAdvance /\ UploadFrame

\* sb.upload_bytes(f"{prefix}/models/{model_id}/{v}/model.npz", ...)
UploadNpz ==
    /\ AtUpload("npz")
    /\ remote' = [remote EXCEPT !.npz[uver] = FullFile(urun)]
    /\ UploadAdvance /\ UploadFrame

\* sb.upload_bytes(f"{prefix}/models/{model_id}/{v}/meta.json", ...)
UploadMeta ==
    /\ AtUpload("meta")
    /\ remote' = [remote EXCEPT !.meta[uver] = FullFile(urun)]
    /\ UploadAdvance /\ UploadFrame

\* sb.upload_bytes(f"{prefix}/models/{model_id}/LATEST", ...)
UploadLatest ==
    /\ AtUpload("latest")
    /\ remote' = [remote EXCEPT !.latest = Ptr(uver)]
    /\ UploadAdvance /\ UploadFrame

\* for sym in universe: sb.upload_bytes(f"{prefix}/ohlcv/{p.name}", ...)
UploadOhlcv ==
    /\ AtUpload("ohlcv")
    /\ remote' = [remote EXCEPT !.ohlcv = FullFile(urun)]
    /\ UploadAdvance /\ UploadFrame

\* sb.upload_bytes(f"{prefix}/latest.json", ...)
UploadLatestJson ==
    /\ AtUpload("latest_json")
    /\ remote' = [remote EXCEPT !.latest_json = [ver |-> uver, run |-> urun]]
    /\ UploadAdvance /\ UploadFrame

\* Supabase.upload_bytes raises (no 200/201, or no answer): the run ends
UploadFails ==
    /\ upc >= 1
    /\ upc' = 0
    /\ UNCHANGED remote /\ UploadFrame

ConsumerFrame == UNCHANGED <<clock, remote, upc, uver, urun, syncs>> /\ SyncFrame

\* sync_eod: meta = fetch_latest_json(prefix); if not meta: return {}
FetchLatestJson ==
    /\ spc = "idle" /\ syncs < MaxSyncs
    /\ syncs' = syncs + 1
    /\ \E ok \in BOOLEAN :
          IF ok /\ remote.latest_json.run # 0
          THEN sjson' = remote.latest_json /\ spc' = "features"
          ELSE sjson' = NoPublish /\ spc' = "load"
    /\ UNCHANGED <<fs, rres>>
    /\ UNCHANGED <<clock, remote, upc, uver, urun>> /\ SyncFrame

\* _download(feat_url, root / "features.parquet")
DownloadFeatures ==
    /\ spc = "features"
    /\ \E o \in DownloadOutcomes(remote.features) :
          fs' = [fs EXCEPT !.features = Downloaded(@, remote.features, o)]
    /\ spc' = "npz"
    /\ UNCHANGED <<sjson, rres>> /\ ConsumerFrame

\* _download(npz, root / "models" / model_id / version / "model.npz")
DownloadNpz ==
    /\ spc = "npz"
    /\ \E o \in DownloadOutcomes(remote.npz[sjson.ver]) :
          fs' = [fs EXCEPT !.dirs = @ \cup {sjson.ver},
                           !.npz[sjson.ver] = Downloaded(@, remote.npz[sjson.ver], o)]
    /\ spc' = "meta"
    /\ UNCHANGED <<sjson, rres>> /\ ConsumerFrame

\* _download(mjs, root / "models" / model_id / version / "meta.json")
DownloadMeta ==
    /\ spc = "meta"
    /\ \E o \in DownloadOutcomes(remote.meta[sjson.ver]) :
          fs' = [fs EXCEPT !.dirs = @ \cup {sjson.ver},
                           !.meta[sjson.ver] = Downloaded(@, remote.meta[sjson.ver], o)]
    /\ spc' = "latest"
    /\ UNCHANGED <<sjson, rres>> /\ ConsumerFrame

\* _download(latest, root / "models" / model_id / "LATEST"); return meta
DownloadLatest ==
    /\ spc = "latest"
    /\ \E o \in DownloadOutcomes(remote.latest) :
          fs' = [fs EXCEPT !.latest = DownloadedPtr(@, remote.latest, o)]
    /\ spc' = "load"
    /\ UNCHANGED <<sjson, rres>> /\ ConsumerFrame

\* ml.py: meta, model = load_ridge_latest(5), right after sync_eod returned
LoadAfterSync ==
    /\ spc = "load"
    /\ rres' = load_ridge_latest(fs)
    /\ spc' = "done"
    /\ UNCHANGED <<fs, sjson>> /\ ConsumerFrame

\* the page is rendered; the next rerun syncs again
PageRendered ==
    /\ spc = "done"
    /\ spc' = "idle"
    /\ UNCHANGED <<fs, sjson, rres>> /\ ConsumerFrame

NextSync ==
    \/ Tick
    \/ StartUploadRun \/ UploadFeatures \/ UploadNpz \/ UploadMeta \/ UploadLatest
    \/ UploadOhlcv \/ UploadLatestJson \/ UploadFails
    \/ FetchLatestJson \/ DownloadFeatures \/ DownloadNpz \/ DownloadMeta \/ DownloadLatest
    \/ LoadAfterSync \/ PageRendered

SpecSync == Init /\ [][NextSync]_vars

\* the publisher's upload runs alone: no consumer is syncing
NextUpload ==
    \/ Tick
    \/ StartUploadRun \/ UploadFeatures \/ UploadNpz \/ UploadMeta \/ UploadLatest
    \/ UploadOhlcv \/ UploadLatestJson \/ UploadFails

SpecUpload == Init /\ [][NextUpload]_vars

----------------------------------------------------------------------------
(* frontend/services/remote_artifacts.py sync_ohlcv, for one symbol: the   *)
(* process environment (SUPABASE_BUCKET, SUPABASE_URL set or not), the     *)
(* object under <prefix>/ohlcv/ in the bucket and the local file           *)
(* data/ohlcv/<SYM>.parquet.                                               *)

MaxOhlcvCalls == 2

\* the local file may be there from the start (run 0: written by an earlier
\* process, e.g. scripts/ingest_eod.py); the bucket is empty
InitOhlcv ==
    /\ \E b \in BOOLEAN, u \in BOOLEAN, f \in {NoFile, FullFile(0)} :
          so = [bucket |-> b, url |-> u, remote |-> NoFile, file |-> f,
                pc |-> "idle", ret |-> FALSE, calls |-> 0]
    /\ clock = 0 /\ fs = EmptyDir /\ WriterIdle /\ ReaderIdle /\ SyncIdle
    /\ PortfolioIdle /\ TrainIdle /\ RankIdle /\ FeaturesIdle
    /\ ClipIdle /\ TableIdle /\ OrderIdle

OhlcvFrame ==
    UNCHANGED <<pf_vars, t_vars, clock, fs, w_vars, r_vars, s_vars,
                tb_preds, tb_n, tb_top, tb_bottom, tb_done,
                pr_snapshot, pr_model, pr_out, pr_done,
                bt_close, bt_horizon, bt_target, bt_done, cl, ft, pf2>>

Returned(result) == [so EXCEPT !.pc = "returned", !.ret = result]

\* a publisher run uploads the symbol's snapshot (publish_eod.main)
OhlcvPublished ==
    /\ so.remote.run < MaxRuns
    /\ so' = [so EXCEPT !.remote = FullFile(so.remote.run + 1)]
    /\ OhlcvFrame

\* sync_ohlcv up to the call of _download: no bucket -> False; the local file
\* exists -> True; no URL -> False
SyncOhlcvCall ==
    /\ so.pc = "idle" /\ so.calls < MaxOhlcvCalls
    /\ LET c == [so EXCEPT !.calls = @ + 1]
       IN  so' = IF ~so.bucket THEN [c EXCEPT !.pc = "returned", !.ret = FALSE]
                 ELSE IF so.file.st # "missing" THEN [c EXCEPT !.pc = "returned", !.ret = TRUE]
                 ELSE IF ~so.url THEN [c EXCEPT !.pc = "returned", !.ret = FALSE]
                 ELSE [c EXCEPT !.pc = "get"]
    /\ OhlcvFrame

\* _download: requests.get(url, stream=True, timeout=60); an exception or a
\* status other than 200 returns False before the file is opened
DownloadGet ==
    /\ so.pc = "get"
    /\ \E answered \in BOOLEAN :
          so' = IF answered /\ so.remote.st = "full"
                THEN [so EXCEPT !.pc = "open"]
                ELSE Returned(FALSE)
    /\ OhlcvFrame

\* _download: open(out, "wb") creates the file, empty
DownloadOpen ==
    /\ so.pc = "open"
    /\ so' = [so EXCEPT !.pc = "write", !.file = PartialFile]
    /\ OhlcvFrame

\* _download: the chunks are written and True is returned, or the stream
\* breaks, the exception is caught and False is returned
DownloadWrite ==
    /\ so.pc = "write"
    /\ \E whole \in BOOLEAN :
          so' = IF whole THEN [Returned(TRUE) EXCEPT !.file = so.remote]
                ELSE Returned(FALSE)
    /\ OhlcvFrame

\* the caller has the result; the next call may begin
SyncOhlcvReturns ==
    /\ so.pc = "returned"
    /\ so' = [so EXCEPT !.pc = "idle"]
    /\ OhlcvFrame

NextOhlcv ==
    \/ OhlcvPublished \/ SyncOhlcvCall \/ DownloadGet \/ DownloadOpen \/ DownloadWrite
    \/ SyncOhlcvReturns

SpecOhlcv == InitOhlcv /\ [][NextOhlcv]_vars

----------------------------------------------------------------------------
(* Portfolio construction: inputs from bounded sets, one call.             *)

NSyms == 3
MaxN  == 2

Syms == 1..NSyms

\* (predicted return, risk) of one symbol; a risk of 0 and a missing risk make
\* the symbol ineligible; predictions are finite
SymbolInputs ==
    { <<RInt(3), RiskNum(RInt(1))>>, <<RInt(1), RiskNum(RInt(1))>>,
      <<RInt(-1), RiskNum(RInt(1))>>, <<RInt(1), RiskNum(RInt(2))>>,
      <<RInt(-4), RiskNum(RInt(2))>>, <<RInt(1), RiskNum(RZero)>>,
      <<RInt(3), RiskAbsent>> }

GrossVals == { RInt(-1), RZero, RInt(1) }
NetVals   == { RInt(-2), R(-1, 2), RZero, RInt(1) }
CapVals   == { RZero, R(1, 5), R(2, 5), RInt(1) }

InitPortfolio ==
    /\ \E f \in [Syms -> SymbolInputs] :
          /\ pf_preds = [i \in Syms |-> [k |-> i, v |-> f[i][1]]]
          /\ pf_risks = [i \in Syms |-> f[i][2]]
    /\ \E ln \in 0..MaxN, sn \in 0..MaxN, g \in GrossVals, nt \in NetVals, cap \in CapVals :
          pf_c = Constraints(ln, sn, g, nt, cap)
    /\ pf_w = <<>>
    /\ pf_done = FALSE
    /\ clock = 0 /\ fs = EmptyDir /\ WriterIdle /\ ReaderIdle /\ SyncIdle
    /\ TrainIdle /\ RankIdle /\ FeaturesIdle /\ CallsIdle

BuildLongShort ==
    /\ ~pf_done
    /\ pf_w' = build_long_short(pf_preds, pf_risks, pf_c)
    /\ pf_done' = TRUE
    /\ UNCHANGED <<pf_preds, pf_risks, pf_c, clock, fs, w_vars, r_vars, s_vars, t_vars, fn_vars>>

NextPortfolio == BuildLongShort

SpecPortfolio == InitPortfolio /\ [][NextPortfolio]_vars

\* The same call on the inputs that decide the side split: scoreable symbols
\* with distinct and tied scores, one unscoreable symbol so that the eligible
\* universe varies in size, and a gross budget of zero or one.
SideSymbolInputs ==
    SymbolInputs \ { <<RInt(-4), RiskNum(RInt(2))>>, <<RInt(3), RiskAbsent>> }

SideGrossVals == GrossVals \ { RInt(-1) }

InitSides ==
    /\ \E f \in [Syms -> SideSymbolInputs] :
          /\ pf_preds = [i \in Syms |-> [k |-> i, v |-> f[i][1]]]
          /\ pf_risks = [i \in Syms |-> f[i][2]]
    /\ \E ln \in 0..MaxN, sn \in 0..MaxN, g \in SideGrossVals, nt \in NetVals, cap \in CapVals :
          pf_c = Constraints(ln, sn, g, nt, cap)
    /\ pf_w = <<>>
    /\ pf_done = FALSE
    /\ clock = 0 /\ fs = EmptyDir /\ WriterIdle /\ ReaderIdle /\ SyncIdle
    /\ TrainIdle /\ RankIdle /\ FeaturesIdle /\ CallsIdle

SpecSides == InitSides /\ [][NextPortfolio]_vars

----------------------------------------------------------------------------
(* quant/portfolio.py _clip_and_renorm called on its own, the capping loop *)
(* one iteration at a time.                                                *)

MaxClipNames == 4

\* unconstrained weights: signed, of different sizes, 1e-12-sized, and 0.0
ClipWeights ==
    { Val(RInt(4), 0), Val(RInt(3), 0), Val(RInt(1), 0), Val(RInt(-1), 0),
      Val(RZero, 1), VZero }

ClipGrossVals == { RZero, R(1, 2), RInt(1) }

InitClip ==
    /\ \E n \in 0..MaxClipNames :
          \E f \in [1..n -> ClipWeights], g \in ClipGrossVals, cap \in CapVals :
              cl = [w |-> [i \in 1..n |-> [k |-> i, v |-> f[i]]], gross |-> g, cap |-> cap,
                    pc |-> "call", items |-> <<>>, p |-> <<>>, target |-> RZero,
                    alloc |-> <<>>, free |-> {}, it |-> 0, how |-> "", out |-> <<>>]
    /\ clock = 0 /\ fs = EmptyDir /\ WriterIdle /\ ReaderIdle /\ SyncIdle
    /\ PortfolioIdle /\ TrainIdle /\ RankIdle /\ FeaturesIdle
    /\ OhlcvIdle /\ TableIdle /\ OrderIdle

ClipFrame ==
    UNCHANGED <<pf_vars, t_vars, clock, fs, w_vars, r_vars, s_vars,
                tb_preds, tb_n, tb_top, tb_bottom, tb_done,
                pr_snapshot, pr_model, pr_out, pr_done,
                bt_close, bt_horizon, bt_target, bt_done, so, ft, pf2>>

\* _clip_and_renorm up to the loop: the early returns, items, s0,
\* target_gross, p, alloc = zeros, free = ones
ClipCall ==
    /\ cl.pc = "call"
    /\ LET items == KeepTruthy(cl.w)
           n     == Len(items)
       IN  cl' = IF cl.w = <<>> \/ cl.gross[1] <= 0 \/ cl.cap[1] <= 0 \/ items = <<>>
                 THEN [cl EXCEPT !.pc = "done", !.how = "early"]
                 ELSE [cl EXCEPT !.pc = "loop", !.items = items,
                                 !.p = Proportions([i \in 1..n |-> AbsOf(items[i].v)]),
                                 !.target = TargetGross(cl.gross, cl.cap, n),
                                 !.alloc = [i \in 1..n |-> VZero],
                                 !.free = 1..n]
    /\ ClipFrame

\* one iteration of the loop; after the last of the len(keys) iterations the
\* loop is over without a break
ClipIterate ==
    /\ cl.pc = "loop"
    /\ LET r == ClipIteration(cl.alloc, cl.free, cl.p, cl.target, cl.cap)
           c == [cl EXCEPT !.alloc = r.alloc, !.free = r.free, !.it = @ + 1]
       IN  cl' = IF r.brk THEN [c EXCEPT !.pc = "out", !.how = "break"]
                 ELSE IF cl.it + 1 >= Len(cl.p) THEN [c EXCEPT !.pc = "out", !.how = "exhausted"]
                 ELSE c
    /\ ClipFrame

\* out = {k: float(s * a) for k, s, a in zip(keys, signs, alloc) if a > 0}
RECURSIVE ClipOutUnsigned(_, _, _)
ClipOutUnsigned(items, alloc, i) ==
    IF i > Len(items) THEN <<>>
    ELSE IF Truthy(alloc[i])
         THEN <<[k |-> items[i].k, v |-> alloc[i]]>> \o ClipOutUnsigned(items, alloc, i + 1)
         ELSE ClipOutUnsigned(items, alloc, i + 1)
RECURSIVE ClipOut(_, _, _)
ClipOut(items, alloc, i) ==
    IF i > Len(items) THEN <<>>
    ELSE IF Truthy(alloc[i])
         THEN <<[k |-> items[i].k, v |-> Signed(SignOf(items[i].v), alloc[i])]>>
              \o ClipOut(items, alloc, i + 1)
         ELSE ClipOut(items, alloc, i + 1)

ClipReturn ==
    /\ cl.pc = "out"
    /\ cl' = [cl EXCEPT !.pc = "done", !.out = ClipOut(cl.items, cl.alloc, 1)]
    /\ ClipFrame

NextClip == ClipCall \/ ClipIterate \/ ClipReturn

SpecClip == InitClip /\ [][NextClip]_vars

----------------------------------------------------------------------------
(* Portfolio construction on unscoreable and degenerate inputs: risks that *)
(* are missing, zero, negative, NaN or infinite; counts, gross and cap     *)
(* that are zero or negative.                                              *)

NEdgeSyms == 3
MaxEdgeN  == 1

EdgeSyms == 1..NEdgeSyms

EdgeSymbolInputs ==
    { <<RInt(3), RiskNum(RInt(1))>>, <<RInt(-1), RiskNum(RInt(1))>>,
      <<RInt(2), RiskNum(RInt(-1))>>, <<RInt(1), RiskNum(RZero)>>,
      <<RInt(3), RiskNaN>>, <<RInt(3), RiskInf>>, <<RInt(3), RiskAbsent>> }

EdgeCounts    == {-1} \cup (0..MaxEdgeN)
EdgeGrossVals == { RInt(-1), RZero, RInt(1) }
EdgeNetVals   == { RInt(-2), RZero, RInt(1) }
EdgeCapVals   == { R(-1, 5), RZero, R(2, 5) }

InitEligibility ==
    /\ \E f \in [EdgeSyms -> EdgeSymbolInputs] :
          /\ pf_preds = [i \in EdgeSyms |-> [k |-> i, v |-> f[i][1]]]
          /\ pf_risks = [i \in EdgeSyms |-> f[i][2]]
    /\ \E ln \in EdgeCounts, sn \in EdgeCounts, g \in EdgeGrossVals,
          nt \in EdgeNetVals, cap \in EdgeCapVals :
          pf_c = Constraints(ln, sn, g, nt, cap)
    /\ pf_w = <<>>
    /\ pf_done = FALSE
    /\ clock = 0 /\ fs = EmptyDir /\ WriterIdle /\ ReaderIdle /\ SyncIdle
    /\ TrainIdle /\ RankIdle /\ FeaturesIdle /\ CallsIdle

SpecEligibility == InitEligibility /\ [][NextPortfolio]_vars

----------------------------------------------------------------------------
(* quant/rank.py top_bottom.  A frame is a sequence of rows in index       *)
(* order; a predictions row is [k |-> symbol, v |-> pred], one per symbol. *)

\* the frames DataFrame.sort_values("pred", ascending=asc) may return: the
\* rows ordered by pred; the default sort kind is not stable, so rows with
\* equal pred come in any order
sort_values(rows, asc) ==
    LET n == Len(rows)
        ordered(q) == \A i, j \in 1..n :
                         i < j => IF asc THEN rows[q[i]].v <= rows[q[j]].v
                                         ELSE rows[q[i]].v >= rows[q[j]].v
        perms == { q \in [1..n -> 1..n] : /\ \A i, j \in 1..n : q[i] = q[j] => i = j
                                          /\ ordered(q) }
    IN  { [i \in 1..n |-> rows[q[i]]] : q \in perms }

\* DataFrame.head(n), n >= 0
head(p, n) == SubSeq(p, 1, IMin(n, Len(p)))

\* DataFrame.tail(n), n >= 0
tailWithoutHead(p, n) ==
    DropKeys(IF n = 0 THEN <<>> ELSE SubSeq(p, IMax(1, Len(p) - n + 1), Len(p)),
             Keys(head(p, n)))
tail(p, n) == IF n = 0 THEN <<>> ELSE SubSeq(p, IMax(1, Len(p) - n + 1), Len(p))

MaxRows == 4
MaxTopN == 3

PredVals == {-1, 0, 2}

InitTopBottom ==
    /\ \E n \in 0..MaxRows : \E f \in [1..n -> PredVals] :
          tb_preds = [i \in 1..n |-> [k |-> i, v |-> f[i]]]
    /\ tb_n \in 0..MaxTopN
    /\ tb_top = <<>> /\ tb_bottom = <<>> /\ tb_done = FALSE
    /\ clock = 0 /\ fs = EmptyDir /\ WriterIdle /\ ReaderIdle /\ SyncIdle
    /\ PortfolioIdle /\ TrainIdle /\ FeaturesIdle /\ PredictIdle /\ CallsIdle

\* top_bottom(preds, n)
TopBottom ==
    /\ ~tb_done
    /\ IF tb_preds = <<>>
       THEN tb_top' = <<>> /\ tb_bottom' = <<>>
       ELSE \E p \in sort_values(tb_preds, FALSE) :
               /\ tb_top' = head(p, tb_n)
               /\ tb_bottom' \in sort_values(tail(p, tb_n), TRUE)
    /\ tb_done' = TRUE
    /\ UNCHANGED <<tb_preds, tb_n, pr_snapshot, pr_model, pr_out, pr_done,
                   bt_close, bt_horizon, bt_target, bt_done>>
    /\ UNCHANGED <<pf_vars, t_vars, clock, fs, w_vars, r_vars, s_vars, call_vars>>

NextTopBottom == TopBottom

SpecTopBottom == InitTopBottom /\ [][NextTopBottom]_vars

----------------------------------------------------------------------------
(* quant/rank.py predict_ridge.  The snapshot frame is [cols |-> its       *)
(* column names in frame order, rows |-> its rows], a row a function from  *)
(* column name to number.  The model dict holds the recorded feature names *)
(* and w, mu, sig in the same order.                                       *)

SeqRange(q) == { q[i] : i \in DOMAIN q }

\* DataFrame.empty: some axis has length 0
IsEmptyFrame(frame) == frame.cols = <<>> \/ frame.rows = <<>>

\* frame[names]: the named columns in the order of `names`, per row;
\* KeyError when a name is not a column
getitem_by_position(frame, names) ==
    IF Len(frame.cols) < Len(names) + 1 THEN [out |-> "raised", X |-> <<>>]
    ELSE [out |-> "ok",
          X |-> [i \in DOMAIN frame.rows |->
                    [j \in DOMAIN names |-> frame.rows[i][frame.cols[j + 1]]]]]
getitem(frame, names) ==
    IF \E j \in DOMAIN names : names[j] \notin SeqRange(frame.cols)
    THEN [out |-> "raised", X |-> <<>>]
    ELSE [out |-> "ok",
          X |-> [i \in DOMAIN frame.rows |->
                    [j \in DOMAIN names |-> frame.rows[i][names[j]]]]]

\* ((x - mu) / sig) @ w for one row x
RECURSIVE ZDot(_, _, _)
ZDot(x, model, j) ==
    IF j > Len(x) THEN RZero
    ELSE RAdd(RMul(RDiv(RSub(RInt(x[j]), RInt(model.mu[j])), RInt(model.sig[j])),
                   RInt(model.w[j])),
              ZDot(x, model, j + 1))

\* snapshot["vol_20d"].astype(float).clip(lower=1e-6)
ClipRisk(vol) == IF vol > 0 THEN [r |-> RInt(vol), floored |-> FALSE]
                 ELSE [r |-> RZero, floored |-> TRUE]

\* predict_ridge(snapshot, model)
predict_ridge(snapshot, model) ==
    LET sel == getitem(snapshot, model.features)
    IN  IF IsEmptyFrame(snapshot) THEN [out |-> "empty", rows |-> <<>>]
        ELSE IF sel.out = "raised" THEN [out |-> "raised", rows |-> <<>>]
        ELSE IF "symbol" \notin SeqRange(snapshot.cols) THEN [out |-> "raised", rows |-> <<>>]
        ELSE IF "vol_20d" \notin SeqRange(snapshot.cols) THEN [out |-> "raised", rows |-> <<>>]
        ELSE [out |-> "ok",
              rows |-> [i \in DOMAIN snapshot.rows |->
                          [symbol |-> snapshot.rows[i]["symbol"],
                           pred |-> ZDot(sel.X[i], model, 1),
                           risk |-> ClipRisk(snapshot.rows[i]["vol_20d"])]]]

MaxSnapshotRows == 1

ColumnNames == {"symbol", "ret_1d", "vol_20d", "target"}

\* the column orders a frame can have: the sequences of distinct column names
ColumnOrders ==
    UNION { { q \in [1..n -> ColumnNames] : \A i, j \in 1..n : q[i] = q[j] => i = j }
            : n \in 0..Cardinality(ColumnNames) }

\* (ret_1d, vol_20d) of one snapshot row
RowVals == { <<3, 2>>, <<5, 0>>, <<2, 2>> }

\* the feature lists an artifact may record, with w, mu, sig
RecordedFeatures ==
    { <<"ret_1d", "vol_20d">>, <<"vol_20d", "ret_1d">>, <<"ret_1d">>, <<"vol_20d">> }

InitPredict ==
    /\ \E cols \in ColumnOrders, n \in 0..MaxSnapshotRows : \E f \in [1..n -> RowVals] :
          pr_snapshot =
              [cols |-> cols,
               rows |-> [i \in 1..n |->
                           [c \in SeqRange(cols) |->
                               IF c = "symbol" THEN i
                               ELSE IF c = "ret_1d" THEN f[i][1]
                               ELSE IF c = "vol_20d" THEN f[i][2]
                               ELSE 0]]]
    /\ \E feats \in RecordedFeatures :
          pr_model = [features |-> feats,
                      w   |-> SubSeq(<<2, -1>>, 1, Len(feats)),
                      mu  |-> SubSeq(<<1, 0>>, 1, Len(feats)),
                      sig |-> SubSeq(<<1, 2>>, 1, Len(feats))]
    /\ pr_out = [out |-> "none", rows |-> <<>>] /\ pr_done = FALSE
    /\ clock = 0 /\ fs = EmptyDir /\ WriterIdle /\ ReaderIdle /\ SyncIdle
    /\ PortfolioIdle /\ TrainIdle /\ FeaturesIdle /\ TopBottomIdle /\ CallsIdle

\* preds = predict_ridge(snap, model)
PredictRidge ==
    /\ ~pr_done
    /\ pr_out' = predict_ridge(pr_snapshot, pr_model)
    /\ pr_done' = TRUE
    /\ UNCHANGED <<tb_preds, tb_n, tb_top, tb_bottom, tb_done, pr_snapshot, pr_model,
                   bt_close, bt_horizon, bt_target, bt_done>>
    /\ UNCHANGED <<pf_vars, t_vars, clock, fs, w_vars, r_vars, s_vars, call_vars>>

NextPredict == PredictRidge

SpecPredict == InitPredict /\ [][NextPredict]_vars

----------------------------------------------------------------------------
(* quant/features.py build_targets.  A series is a sequence of values in   *)
(* index order; a value is a number or NaN.                                *)

NaN    == [nan |-> TRUE, r |-> RZero]
Num(r) == [nan |-> FALSE, r |-> r]

\* Series.shift(periods): the value `periods` rows earlier, NaN where there
\* is none
shift_backward(series, periods) ==
    [t \in 1..Len(series) |->
        IF t + periods >= 1 /\ t + periods <= Len(series) THEN series[t + periods] ELSE NaN]
shift(series, periods) ==
    [t \in 1..Len(series) |->
        IF t - periods >= 1 /\ t - periods <= Len(series) THEN series[t - periods] ELSE NaN]

\* build_targets(close, horizon): close.shift(-horizon) / close - 1.0
build_targets(close, horizon) ==
    LET ahead == shift(close, -horizon)
    IN  [t \in 1..Len(close) |->
            IF ahead[t].nan \/ close[t].nan THEN NaN
            ELSE Num(RSub(RDiv(ahead[t].r, close[t].r), RInt(1)))]

MaxSeriesLen == 4
MaxHorizon   == 2

\* closing prices: positive numbers
CloseVals == { Num(RInt(1)), Num(RInt(2)), Num(RInt(3)) }

InitTargets ==
    /\ \E n \in 0..MaxSeriesLen : bt_close \in [1..n -> CloseVals]
    /\ bt_horizon \in 1..MaxHorizon
    /\ bt_target = <<>> /\ bt_done = FALSE
    /\ clock = 0 /\ fs = EmptyDir /\ WriterIdle /\ ReaderIdle /\ SyncIdle
    /\ PortfolioIdle /\ TrainIdle /\ RankIdle /\ CallsIdle

\* y = build_targets(h["Close"], horizon=horizon)
BuildTargets ==
    /\ ~bt_done
    /\ bt_target' = build_targets(bt_close, bt_horizon)
    /\ bt_done' = TRUE
    /\ UNCHANGED <<tb_preds, tb_n, tb_top, tb_bottom, tb_done,
                   pr_snapshot, pr_model, pr_out, pr_done, bt_close, bt_horizon>>
    /\ UNCHANGED <<pf_vars, t_vars, clock, fs, w_vars, r_vars, s_vars, call_vars>>

NextTargets == BuildTargets

SpecTargets == InitTargets /\ [][NextTargets]_vars

----------------------------------------------------------------------------
(* The feature table of the two entry points that persist one:             *)
(* scripts/publish_eod.py (_build_feature_table, then _parquet_write in    *)
(* main) and scripts/build_features.py main.  Dates are row numbers of the *)
(* price history, which every symbol starts at 1.  Of the feature columns  *)
(* the model keeps ret_1d and price_sma20, the latter with a window of     *)
(* SmaWindow rows (20 in the code), which sets the warm-up.                *)

SmaWindow   == 2
MaxTableLen == 3
TableSymbols == <<"A", "B">>
TableCloseVals == { Num(RInt(1)), Num(RInt(2)) }
TableEntryPoints == {"publish_eod", "build_features"}

\* close.pct_change(1)
pct_change(close) ==
    [t \in 1..Len(close) |->
        IF t = 1 \/ close[t].nan \/ close[t - 1].nan THEN NaN
        ELSE Num(RSub(RDiv(close[t].r, close[t - 1].r), RInt(1)))]

\* close.rolling(window).mean()
RECURSIVE WindowSum(_, _, _)
WindowSum(close, t, k) ==
    IF k = 0 THEN RZero ELSE RAdd(close[t].r, WindowSum(close, t - 1, k - 1))
rolling_mean(close, window) ==
    [t \in 1..Len(close) |->
        IF t < window \/ \E k \in 0..(window - 1) : close[t - k].nan THEN NaN
        ELSE Num(RDiv(WindowSum(close, t, window), RInt(window)))]

\* build_features(h): the feature columns, then out.dropna()
build_features(close) ==
    LET ret1  == pct_change(close)
        sma   == rolling_mean(close, SmaWindow)
        out   == [t \in 1..Len(close) |->
                    [date |-> t, ret_1d |-> ret1[t],
                     price_sma |-> IF close[t].nan \/ sma[t].nan THEN NaN
                                   ELSE Num(RSub(RDiv(close[t].r, sma[t].r), RInt(1)))]]
    IN  SelectSeq(out, LAMBDA row : ~row.ret_1d.nan /\ ~row.price_sma.nan)

\* y = build_targets(h["Close"], horizon).reindex(f.index);
\* f.assign(symbol=sym, target=y)
SymbolRows(sym, close, horizon) ==
    LET f == build_features(close)
        y == build_targets(close, horizon)
    IN  [i \in 1..Len(f) |->
            [date |-> f[i].date, symbol |-> sym, ret_1d |-> f[i].ret_1d,
             price_sma |-> f[i].price_sma, target |-> y[f[i].date]]]

\* the loop over symbols: pd.concat(rows, ignore_index=True)
RECURSIVE ConcatRows(_, _, _)
ConcatRows(close, horizon, i) ==
    IF i > Len(TableSymbols) THEN <<>>
    ELSE SymbolRows(TableSymbols[i], close[i], horizon) \o ConcatRows(close, horizon, i + 1)

\* DataFrame.dropna() on the concatenated table
dropna(table) ==
    SelectSeq(table, LAMBDA row : ~row.ret_1d.nan /\ ~row.price_sma.nan /\ ~row.target.nan)

InitTable ==
    /\ \E e \in TableEntryPoints, h \in 1..MaxHorizon :
       \E na, nb \in 0..MaxTableLen :
       \E ca \in [1..na -> TableCloseVals], cb \in [1..nb -> TableCloseVals] :
          ft = [entry |-> e, horizon |-> h, close |-> <<ca, cb>>, pc |-> "build",
                table |-> <<>>, any |-> FALSE, wrote |-> FALSE]
    /\ clock = 0 /\ fs = EmptyDir /\ WriterIdle /\ ReaderIdle /\ SyncIdle
    /\ PortfolioIdle /\ TrainIdle /\ RankIdle /\ FeaturesIdle
    /\ OhlcvIdle /\ ClipIdle /\ OrderIdle

TableFrame ==
    UNCHANGED <<clock, fs, w_vars, r_vars, s_vars, pf_vars, t_vars, so, cl, pf2,
                tb_preds, tb_n, tb_top, tb_bottom, tb_done,
                pr_snapshot, pr_model, pr_out, pr_done,
                bt_close, bt_horizon, bt_target, bt_done>>

\* publish_eod: df = _build_feature_table(universe, p, horizon=..., days=...)
BuildFeatureTable ==
    /\ ft.pc = "build" /\ ft.entry = "publish_eod"
    /\ LET df == ConcatRows(ft.close, ft.horizon, 1)
       IN  ft' = [ft EXCEPT !.table = df, !.any = (df # <<>>), !.pc = "write"]
    /\ TableFrame

\* build_features.py: the loop, then out = pd.concat(rows, ...).dropna()
BuildFeaturesMain ==
    /\ ft.pc = "build" /\ ft.entry = "build_features"
    /\ LET rows == ConcatRows(ft.close, ft.horizon, 1)
       IN  ft' = [ft EXCEPT !.table = IF rows = <<>> THEN <<>> ELSE dropna(rows),
                            !.any = (rows # <<>>), !.pc = "write"]
    /\ TableFrame

\* publish_eod: if df.empty: raise SystemExit; _parquet_write(df, feat_path)
\* build_features.py: if not rows: raise SystemExit; COPY df TO out_path
WriteTable ==
    /\ ft.pc = "write"
    /\ ft' = [ft EXCEPT !.wrote = ft.any, !.pc = "done"]
    /\ TableFrame

NextTable == BuildFeatureTable \/ BuildFeaturesMain \/ WriteTable

SpecTable == InitTable /\ [][NextTable]_vars

----------------------------------------------------------------------------
(* build_long_short called twice on the same mappings in two iteration     *)
(* orders.  preds.items() yields a dict in insertion order; risks is only  *)
(* looked up by key, so its order plays no part.                           *)

\* (predicted return, risk): the scores are 1, -1, 1 and 3
OrderInputs == { <<RInt(1), RiskNum(RInt(1))>>, <<RInt(-1), RiskNum(RInt(1))>>,
                 <<RInt(4), RiskNum(RInt(2))>>, <<RInt(3), RiskNum(RInt(1))>> }
OrderCapVals == { R(2, 5), RInt(1) }

\* the iteration orders of a dict with the keys Syms
Orders == { p \in [Syms -> Syms] : \A i, j \in Syms : i # j => p[i] # p[j] }

InitOrder ==
    /\ \E f \in [Syms -> OrderInputs], p \in Orders :
          /\ pf_preds = [i \in Syms |-> [k |-> i, v |-> f[i][1]]]
          /\ pf_risks = [i \in Syms |-> f[i][2]]
          /\ pf2 = [preds |-> [i \in Syms |-> [k |-> p[i], v |-> f[p[i]][1]]], w |-> <<>>]
    /\ \E ln \in 0..MaxN, sn \in 0..MaxN, cap \in OrderCapVals :
          pf_c = Constraints(ln, sn, RInt(1), RZero, cap)
    /\ pf_w = <<>>
    /\ pf_done = FALSE
    /\ clock = 0 /\ fs = EmptyDir /\ WriterIdle /\ ReaderIdle /\ SyncIdle
    /\ TrainIdle /\ RankIdle /\ FeaturesIdle
    /\ OhlcvIdle /\ ClipIdle /\ TableIdle

\* w1 = build_long_short(preds, risks, c); w2 = build_long_short(preds2, risks, c)
BuildLongShortTwice ==
    /\ ~pf_done
    /\ pf_w' = build_long_short(pf_preds, pf_risks, pf_c)
    /\ pf2' = [pf2 EXCEPT !.w = build_long_short(pf2.preds, pf_risks, pf_c)]
    /\ pf_done' = TRUE
    /\ UNCHANGED <<pf_preds, pf_risks, pf_c, clock, fs, w_vars, r_vars, s_vars, t_vars,
                   so, cl, ft, tb_preds, tb_n, tb_top, tb_bottom, tb_done,
                   pr_snapshot, pr_model, pr_out, pr_done,
                   bt_close, bt_horizon, bt_target, bt_done>>

NextOrder == BuildLongShortTwice

SpecOrder == InitOrder /\ [][NextOrder]_vars

----------------------------------------------------------------------------
(* Properties of the registry.                                             *)

PointedVersion == fs.latest.v

\* C1: whenever LATEST names a version, that version's artifact file and meta
\* file both exist, also after publishes that stopped part-way.
PointerNamesExistingFiles ==
    fs.latest.st = "full" =>
        /\ fs.npz[PointedVersion].st # "missing"
        /\ fs.meta[PointedVersion].st # "missing"

\* C1 witness: the pointer names a published version while a later publish
\* has stopped after writing its artifact and before writing its meta.
PointerSetWhileLaterPublishStopped ==
    /\ fs.latest.st = "full" /\ wpc = 0
    /\ \E v \in fs.dirs : /\ v # PointedVersion
                          /\ fs.npz[v].st = "full"
                          /\ fs.meta[v].st = "missing"

\* C2 (as claimed): once v1 is fully published and a later publish has started
\* and has not reached its pointer write, load_latest returns v1's artifact
\* and v1's meta.
PartialPublishKeepsPrior ==
    (lastpub.run # 0 /\ later) =>
        load_ridge_latest(fs) = Loaded(lastpub.run, lastpub.run)

AllDistinct(q) == \A i, j \in DOMAIN q : i # j => q[i] # q[j]

\* C3 (as claimed, and already for writers whose version ids are all
\* distinct): a load that began after some publish completed returns a
\* complete version: it is not absent, does not fail, and its meta and
\* artifact come from the same run.
ConcurrentLoadSeesCompleteVersion ==
    (rpc = "done" /\ rpub /\ AllDistinct(issued)) =>
        /\ rres.out = "ok"
        /\ rres.meta = rres.art
        /\ \E p \in pubs : p.run = rres.art

\* C4 (as claimed): load_latest returns absent when there is no pointer and
\* when the pointer names a version whose artifact or meta file is missing;
\* it never raises for a missing model.
LoadAbsentWhenFilesMissing ==
    (spc = "done" /\
        (\/ fs.latest.st = "missing"
         \/ /\ fs.latest.st = "full"
            /\ \/ fs.npz[PointedVersion].st = "missing"
               \/ fs.meta[PointedVersion].st = "missing"))
        => rres = Absent

\* C5 (as claimed): the outcome for a pointer that names a version with a
\* missing artifact or meta file differs from the outcome for a pointer that
\* never existed (absent).
MissingFilesDistinctFromNeverPublished ==
    (spc = "done" /\ fs.latest.st = "full" /\
        (\/ fs.npz[PointedVersion].st = "missing"
         \/ fs.meta[PointedVersion].st = "missing"))
        => rres # Absent

\* C6 (as claimed): of any two version_id() calls, the later one returns a
\* strictly greater string, so all ids are distinct.
VersionIdsStrictlyIncrease ==
    \A i, j \in DOMAIN issued : i < j => StrLt(issued[i], issued[j])

\* C7 (as claimed): a published version keeps the artifact and the meta it
\* was published with, whatever later runs do.
PublishedNeverMutated ==
    \A p \in pubs : /\ fs.npz[p.ver] = FullFile(p.run)
                    /\ fs.meta[p.ver] = FullFile(p.run)

\* C23 (as claimed): when a publish completes between the reader's read of
\* LATEST and its read of the files, the reader returns the complete
\* artifact and meta of the version the pointer named: it does not fail and
\* does not return fields of two runs.
ReaderKeepsResolvedVersion ==
    (rpc = "done" /\ rhist.ptr.run # 0 /\ rhist.fin # rhist.seen) =>
        rres = Loaded(rhist.ptr.run, rhist.ptr.run)

----------------------------------------------------------------------------
(* Properties of build_long_short.                                         *)

AbsW(i)       == AbsOf(pf_w[i].v).r
EligibleCount == Len(Scored(pf_preds, pf_risks))
NetFeasible   == RLe(pf_c.net, pf_c.gross) /\ RLe(RSub(RZero, pf_c.net), pf_c.gross)

\* C8: every returned weight is at most max_abs_weight in absolute value,
\* for every input, feasible or not.
CapNeverExceeded ==
    pf_done => \A i \in DOMAIN pf_w : RLe(AbsW(i), pf_c.max_abs_weight)

\* C8 witness: a returned name sits exactly at the cap and gross is under-filled.
CapBindsUnderfilled ==
    /\ pf_done
    /\ \E i \in DOMAIN pf_w : AbsW(i) = pf_c.max_abs_weight
    /\ RLt(GrossOf(pf_w), pf_c.gross)

\* C9 (as claimed): with at least long_n + short_n eligible symbols and
\* |net| <= gross, the total absolute weight equals gross.
GrossEqualsRequested ==
    (pf_done /\ EligibleCount >= pf_c.long_n + pf_c.short_n /\ NetFeasible)
        => GrossOf(pf_w) = pf_c.gross

\* the budget the code gives each side fits under max_abs_weight x the side's count
BudgetsFitCaps ==
    LET cap == pf_c.max_abs_weight
    IN  IF pf_c.long_n > 0 /\ pf_c.short_n > 0
        THEN /\ RLe(RMul(R(1, 2), RAdd(pf_c.gross, pf_c.net)), RMul(cap, RInt(pf_c.long_n)))
             /\ RLe(RMul(R(1, 2), RSub(pf_c.gross, pf_c.net)), RMul(cap, RInt(pf_c.short_n)))
        ELSE RLe(pf_c.gross, RMul(cap, RInt(pf_c.long_n + pf_c.short_n)))

\* C9 (amended): ... and each side's budget is at most max_abs_weight times
\* the side's candidate count; then the total absolute weight equals gross.
GrossEqualsRequestedWhenCapsFit ==
    (pf_done /\ EligibleCount >= pf_c.long_n + pf_c.short_n /\ NetFeasible /\ BudgetsFitCaps)
        => GrossOf(pf_w) = pf_c.gross

\* C9 witness: a two-sided book that fills gross with one name frozen at the cap.
GrossFilledWithCapBinding ==
    /\ pf_done /\ EligibleCount >= pf_c.long_n + pf_c.short_n /\ NetFeasible /\ BudgetsFitCaps
    /\ pf_c.gross[1] > 0
    /\ \E i, j \in DOMAIN pf_w : pf_w[i].v.r[1] > 0 /\ pf_w[j].v.r[1] < 0
    /\ \E i, j \in DOMAIN pf_w : AbsW(i) = pf_c.max_abs_weight /\ RLt(AbsW(j), pf_c.max_abs_weight)

\* C10 (as claimed): the total absolute weight never exceeds the requested gross.
GrossNeverAboveRequested ==
    pf_done => RLe(GrossOf(pf_w), pf_c.gross)

\* C10 (amended): the total absolute weight never exceeds max(gross, 0); a
\* negative gross yields the empty map.
GrossNeverAboveRequestedOrZero ==
    pf_done => /\ RLe(GrossOf(pf_w), RMax(pf_c.gross, RZero))
               /\ (pf_c.gross[1] < 0 => pf_w = <<>>)

\* C10 witness: an infeasible net on a two-sided candidate set degrades to a
\* non-empty single-sided book that does not over-allocate.
InfeasibleNetSingleSided ==
    /\ pf_done /\ ~NetFeasible /\ pf_c.gross[1] > 0
    /\ Longs(SortDesc(Scored(pf_preds, pf_risks)), pf_c) # <<>>
    /\ Shorts(SortDesc(Scored(pf_preds, pf_risks)), pf_c) # <<>>
    /\ pf_w # <<>>
    /\ \A i \in DOMAIN pf_w : pf_w[i].v.r[1] <= 0

\* the sorted eligible universe and the two candidate lists of the call
SortedUniverse == SortDesc(Scored(pf_preds, pf_risks))
LongPicks      == Longs(SortedUniverse, pf_c)
ShortPicks     == Shorts(SortedUniverse, pf_c)
NominalLong    == RMul(R(1, 2), RAdd(pf_c.gross, pf_c.net))
NominalShort   == RMul(R(1, 2), RSub(pf_c.gross, pf_c.net))

\* the weight the result gives symbol k; 0.0 when k is not a key
WeightOf(k) ==
    IF \E i \in DOMAIN pf_w : pf_w[i].k = k
    THEN pf_w[CHOOSE i \in DOMAIN pf_w : pf_w[i].k = k].v
    ELSE VZero

\* sum of |w| over the weights of one sign
RECURSIVE SideSum(_, _)
SideSum(w, sign) ==
    IF w = <<>> THEN RZero
    ELSE IF SignOf(w[1].v) = sign THEN RAdd(AbsOf(w[1].v).r, SideSum(Tail(w), sign))
         ELSE SideSum(Tail(w), sign)

\* |a| <= |b| for two weights
AbsLe(a, b) ==
    \/ RLt(AbsOf(a).r, AbsOf(b).r)
    \/ AbsOf(a).r = AbsOf(b).r /\ AbsOf(a).e <= AbsOf(b).e

\* C13: for every eligible universe size the long and short candidate sets
\* are disjoint, no top-long_n symbol has a negative weight, and no symbol is
\* weighted twice.
LongPriorityDisjoint ==
    pf_done =>
        /\ Keys(LongPicks) \cap Keys(ShortPicks) = {}
        /\ \A i \in 1..IMin(IMax(0, pf_c.long_n), Len(SortedUniverse)) :
              SignOf(WeightOf(SortedUniverse[i].k)) >= 0
        /\ \A i, j \in DOMAIN pf_w : pf_w[i].k = pf_w[j].k => i = j

\* C13 witness: the eligible universe is smaller than long_n + short_n and
\* the result still has a long and a short name.
SmallUniverseBothSides ==
    /\ pf_done /\ EligibleCount < pf_c.long_n + pf_c.short_n
    /\ \E i, j \in DOMAIN pf_w : SignOf(pf_w[i].v) > 0 /\ SignOf(pf_w[j].v) < 0

\* both sides have candidates, |net| <= gross and each nominal side budget
\* is at most max_abs_weight x the side's candidate count
TwoSidedFeasible ==
    /\ LongPicks # <<>> /\ ShortPicks # <<>> /\ NetFeasible
    /\ RLe(NominalLong, RMul(pf_c.max_abs_weight, RInt(Len(LongPicks))))
    /\ RLe(NominalShort, RMul(pf_c.max_abs_weight, RInt(Len(ShortPicks))))

\* C14: under TwoSidedFeasible the positive weights sum to (gross + net)/2
\* and the negative ones to -(gross - net)/2, so the weights sum to net.
NetSplitExact ==
    (pf_done /\ TwoSidedFeasible) =>
        /\ SideSum(pf_w, 1) = NominalLong
        /\ SideSum(pf_w, -1) = NominalShort
        /\ RSub(SideSum(pf_w, 1), SideSum(pf_w, -1)) = pf_c.net

\* C14 witness: a two-sided book with a non-zero net and a name at the cap.
NetSplitWithCapBinding ==
    /\ pf_done /\ TwoSidedFeasible /\ pf_c.net[1] # 0 /\ pf_c.gross[1] > 0
    /\ \E i, j \in DOMAIN pf_w : SignOf(pf_w[i].v) > 0 /\ SignOf(pf_w[j].v) < 0
    /\ \E i \in DOMAIN pf_w : AbsW(i) = pf_c.max_abs_weight

\* a nominal side budget is negative or one side has no candidates
Degenerate ==
    \/ LongPicks = <<>> \/ ShortPicks = <<>>
    \/ NominalLong[1] < 0 \/ NominalShort[1] < 0

\* the whole gross budget went to the side of sign `sign`, which has n
\* candidates, and nothing to the other side
SingleSided(sign, n) ==
    /\ \A i \in DOMAIN pf_w : SignOf(pf_w[i].v) = sign
    /\ GrossOf(pf_w) = RMax(RZero, RMin(pf_c.gross, RMul(pf_c.max_abs_weight, RInt(n))))

\* C15 (as claimed): in the degenerate cases the whole gross budget goes to
\* the long side when net >= 0 and long candidates exist, otherwise to the
\* short side.
DegenerateSideByNet ==
    (pf_done /\ Degenerate) =>
        IF pf_c.net[1] >= 0 /\ LongPicks # <<>>
        THEN SingleSided(1, Len(LongPicks))
        ELSE SingleSided(-1, Len(ShortPicks))

\* C15 (amended): ... to the long side when long candidates exist and either
\* net >= 0 or there is no short candidate, otherwise to the short side.
DegenerateSideByCandidates ==
    (pf_done /\ Degenerate) =>
        IF LongPicks # <<>> /\ (pf_c.net[1] >= 0 \/ ShortPicks = <<>>)
        THEN SingleSided(1, Len(LongPicks))
        ELSE SingleSided(-1, Len(ShortPicks))

\* C15 witness: only long candidates, a negative net, and a long-only book.
LongOnlyDespiteNegativeNet ==
    /\ pf_done /\ LongPicks # <<>> /\ ShortPicks = <<>> /\ pf_c.net[1] < 0
    /\ pf_w # <<>>
    /\ \A i \in DOMAIN pf_w : SignOf(pf_w[i].v) > 0

\* C16: within the long side a higher score never gets a smaller weight and
\* no long weight is negative; within the short side a lower score never
\* gets a smaller magnitude; with or without the cap binding.
WeightMonotoneInScore ==
    pf_done =>
        /\ \A a, b \in DOMAIN LongPicks :
              RLe(LongPicks[b].v, LongPicks[a].v) =>
                  /\ AbsLe(WeightOf(LongPicks[b].k), WeightOf(LongPicks[a].k))
                  /\ SignOf(WeightOf(LongPicks[b].k)) >= 0
        /\ \A c, d \in DOMAIN ShortPicks :
              RLe(ShortPicks[d].v, ShortPicks[c].v) =>
                  /\ AbsLe(WeightOf(ShortPicks[c].k), WeightOf(ShortPicks[d].k))
                  /\ SignOf(WeightOf(ShortPicks[d].k)) <= 0

\* C16 witness: two short names, the lower-scored one frozen at the cap, the
\* other below it with a positive share.
CapBindsOnLowerScoredShort ==
    /\ pf_done
    /\ \E c, d \in DOMAIN ShortPicks :
          /\ RLt(ShortPicks[d].v, ShortPicks[c].v)
          /\ AbsOf(WeightOf(ShortPicks[d].k)).r = pf_c.max_abs_weight
          /\ RLt(AbsOf(WeightOf(ShortPicks[c].k)).r, pf_c.max_abs_weight)
          /\ AbsOf(WeightOf(ShortPicks[c].k)).r[1] > 0

----------------------------------------------------------------------------
(* Properties of _clip_and_renorm.                                         *)

\* a non-empty set of names with non-zero finite weights, gross > 0, cap > 0
ClipPrecondition ==
    /\ cl.w # <<>> /\ cl.gross[1] > 0 /\ cl.cap[1] > 0
    /\ \A i \in DOMAIN cl.w : Truthy(cl.w[i].v)

ClipFeasibleMax == RMul(cl.cap, RInt(Len(cl.w)))

\* C24: under ClipPrecondition the result has every name with the sign of
\* its unconstrained weight, the absolute values sum to
\* min(gross, cap x count), and when gross exceeds cap x count every name
\* is at exactly the cap.
ClipKeepsSignsAndFillsGross ==
    (cl.pc = "done" /\ ClipPrecondition) =>
        /\ Len(cl.out) = Len(cl.w)
        /\ \A i \in DOMAIN cl.out :
              /\ cl.out[i].k = cl.w[i].k
              /\ SignOf(cl.out[i].v) = SignOf(cl.w[i].v)
        /\ GrossOf(cl.out) = RMin(cl.gross, ClipFeasibleMax)
        /\ RLt(ClipFeasibleMax, cl.gross) =>
              \A i \in DOMAIN cl.out : AbsOf(cl.out[i].v) = Val(cl.cap, 0)

\* C24 witness: 4 names of both signs, cap 0.2, gross 1.0: four weights of
\* magnitude 0.2, total 0.8.
FourNamesAllAtCap ==
    /\ cl.pc = "done" /\ Len(cl.w) = 4 /\ cl.cap = R(1, 5) /\ cl.gross = RInt(1)
    /\ Len(cl.out) = 4 /\ GrossOf(cl.out) = R(4, 5)
    /\ \A i \in DOMAIN cl.out : AbsOf(cl.out[i].v) = Val(R(1, 5), 0)
    /\ \E i, j \in DOMAIN cl.out : SignOf(cl.out[i].v) > 0 /\ SignOf(cl.out[j].v) < 0

\* budget is still unallocated and some unfrozen name is below the cap
ClipUnfinished(c) ==
    /\ RLt(RSumSet([i \in DOMAIN c.alloc |-> c.alloc[i].r], DOMAIN c.alloc), c.target)
    /\ \E i \in c.free : RLt(c.alloc[i].r, c.cap)

\* C25: every iteration that does not end the loop freezes at least one more
\* name, at the cap; a frozen name stays frozen with its allocation; and the
\* loop never uses up its count iterations while ClipUnfinished.
LoopFreezesUntilFixpoint ==
    [][ cl.pc = "loop" =>
          /\ cl'.pc = "loop" =>
                /\ cl'.free \subseteq cl.free /\ cl'.free # cl.free
                /\ \A i \in cl.free \ cl'.free : cl'.alloc[i] = Val(cl.cap, 0)
          /\ cl'.free \subseteq cl.free
          /\ \A i \in DOMAIN cl.alloc : i \notin cl.free => cl'.alloc[i] = cl.alloc[i]
          /\ cl'.it <= Len(cl.p)
          /\ cl'.how = "exhausted" => ~ClipUnfinished(cl') ]_vars

\* C25 witness: three names, two iterations that each froze a name at the
\* cap, and a third that allocated the rest and ended the loop.
ThreeIterationsTwoFrozen ==
    /\ cl.pc = "out" /\ Len(cl.p) = 3 /\ cl.it = 3 /\ cl.how = "break"
    /\ Cardinality(cl.free) = 1
    /\ \A i \in (1..3) \ cl.free : cl.alloc[i] = Val(cl.cap, 0)
    /\ ~ClipUnfinished(cl)

----------------------------------------------------------------------------
(* Properties of build_long_short on unscoreable and degenerate inputs.    *)

\* a risk value that is present, finite and strictly positive
PositiveFinite(risk) == risk.kind = "num" /\ risk.r[1] > 0

\* predicted_returns without the symbols whose risk is not PositiveFinite
RECURSIVE ScoreablePreds(_, _)
ScoreablePreds(preds, risks) ==
    IF preds = <<>> THEN <<>>
    ELSE IF PositiveFinite(risks[preds[1].k])
         THEN <<preds[1]>> \o ScoreablePreds(Tail(preds), risks)
         ELSE ScoreablePreds(Tail(preds), risks)

\* C11 (as claimed): the result is the empty map whenever no symbol has a
\* finite positive risk, whenever max_abs_weight <= 0 and whenever gross <= 0,
\* for every net, long_n and short_n.
EmptyWhenNothingEligibleOrNoBudget ==
    (pf_done /\ (\/ ScoreablePreds(pf_preds, pf_risks) = <<>>
                 \/ pf_c.max_abs_weight[1] <= 0
                 \/ pf_c.gross[1] <= 0))
        => pf_w = <<>>

\* C12 (as claimed): every weighted symbol has a finite, strictly positive
\* risk, and the result is the one obtained with every other symbol removed
\* from predicted_returns.
OnlyPositiveFiniteRiskWeighted ==
    pf_done =>
        /\ \A i \in DOMAIN pf_w : PositiveFinite(pf_risks[pf_w[i].k])
        /\ pf_w = build_long_short(ScoreablePreds(pf_preds, pf_risks), pf_risks, pf_c)

----------------------------------------------------------------------------
(* Properties of top_bottom.                                               *)

\* every row outside `part` has a pred that is <= (sign 1) or >= (sign -1)
\* every pred in `part`
Extreme(part, sign) ==
    \A i \in DOMAIN tb_preds : \A j \in DOMAIN part :
        tb_preds[i].k \notin Keys(part) => sign * tb_preds[i].v <= sign * part[j].v

\* the rows of `part` are rows of the predictions, one per symbol
RowsOfPreds(part) ==
    /\ \A j \in DOMAIN part : \E i \in DOMAIN tb_preds : tb_preds[i] = part[j]
    /\ \A i, j \in DOMAIN part : part[i].k = part[j].k => i = j

\* C17: top is the min(n, N) highest predictions in descending order, bottom
\* the min(n, N) lowest in ascending order; the two share 2 min(n, N) - N
\* symbols when that is positive (nothing is deduplicated); both are empty
\* for an empty prediction set.
TopBottomRanks ==
    tb_done =>
        LET N == Len(tb_preds)
            m == IMin(tb_n, N)
        IN  /\ Len(tb_top) = m /\ Len(tb_bottom) = m
            /\ RowsOfPreds(tb_top) /\ RowsOfPreds(tb_bottom)
            /\ \A i, j \in DOMAIN tb_top : i < j => tb_top[i].v >= tb_top[j].v
            /\ \A i, j \in DOMAIN tb_bottom : i < j => tb_bottom[i].v <= tb_bottom[j].v
            /\ Extreme(tb_top, 1) /\ Extreme(tb_bottom, -1)
            /\ Cardinality(Keys(tb_top) \cap Keys(tb_bottom)) = IMax(0, 2 * m - N)
            /\ (N = 0 => tb_top = <<>> /\ tb_bottom = <<>>)

\* C17 witness: fewer than 2n predictions, more than n, and a symbol that is
\* in both lists.
TopAndBottomOverlap ==
    /\ tb_done /\ Len(tb_preds) < 2 * tb_n /\ tb_n < Len(tb_preds)
    /\ Keys(tb_top) \cap Keys(tb_bottom) # {}

----------------------------------------------------------------------------
(* Properties of predict_ridge.                                            *)

\* the snapshot's feature columns, in frame order
RECURSIVE FeatureCols(_)
FeatureCols(cols) ==
    IF cols = <<>> THEN <<>>
    ELSE IF cols[1] \in {"ret_1d", "vol_20d"} THEN <<cols[1]>> \o FeatureCols(Tail(cols))
         ELSE FeatureCols(Tail(cols))

RecordedMissing ==
    \E j \in DOMAIN pr_model.features : pr_model.features[j] \notin SeqRange(pr_snapshot.cols)

SameColumnsOtherOrder ==
    /\ SeqRange(FeatureCols(pr_snapshot.cols)) = SeqRange(pr_model.features)
    /\ FeatureCols(pr_snapshot.cols) # pr_model.features

\* C18 (as claimed): on a recorded feature missing from the snapshot, and on
\* the recorded columns present in a different order, the call fails hard.
MismatchFailsHard ==
    (pr_done /\ ~IsEmptyFrame(pr_snapshot) /\ (RecordedMissing \/ SameColumnsOtherOrder))
        => pr_out.out = "raised"

\* sum over the recorded features, from the j-th on, of
\* w * (the row's value in the column of that name - mu) / sig
RECURSIVE ByNameScore(_, _)
ByNameScore(row, j) ==
    IF j > Len(pr_model.features) THEN RZero
    ELSE RAdd(RMul(RDiv(RSub(RInt(row[pr_model.features[j]]), RInt(pr_model.mu[j])),
                        RInt(pr_model.sig[j])),
                   RInt(pr_model.w[j])),
              ByNameScore(row, j + 1))

\* C18 (amended): a non-empty snapshot fails hard exactly when a recorded
\* feature (or the symbol or vol_20d column) is not one of its columns;
\* otherwise every row's prediction applies each recorded weight to the
\* column of the recorded name, whatever the snapshot's column order.
PredictSelectsByName ==
    pr_done =>
        /\ IsEmptyFrame(pr_snapshot) => pr_out.out = "empty"
        /\ ~IsEmptyFrame(pr_snapshot) =>
              (pr_out.out = "raised" <=>
                  (RecordedMissing \/ {"symbol", "vol_20d"} \ SeqRange(pr_snapshot.cols) # {}))
        /\ pr_out.out = "ok" =>
              /\ Len(pr_out.rows) = Len(pr_snapshot.rows)
              /\ \A i \in DOMAIN pr_out.rows :
                    /\ pr_out.rows[i].symbol = pr_snapshot.rows[i]["symbol"]
                    /\ pr_out.rows[i].pred = ByNameScore(pr_snapshot.rows[i], 1)

\* C18 witness: predictions are produced from a snapshot whose two feature
\* columns come in the other order than recorded and hold different values.
PredictedFromReorderedSnapshot ==
    /\ pr_done /\ pr_out.out = "ok" /\ SameColumnsOtherOrder
    /\ Len(pr_model.features) = 2
    /\ \E i \in DOMAIN pr_snapshot.rows :
          pr_snapshot.rows[i]["ret_1d"] # pr_snapshot.rows[i]["vol_20d"]

----------------------------------------------------------------------------
(* Properties of build_targets.  Rows are numbered from 1 here, so the     *)
(* 0-based condition t + h < L reads t + h <= L.                           *)

\* C20: for a close series of length L and horizon h >= 1 the target of row
\* t is defined exactly when row t + h exists, and is then
\* close[t+h]/close[t] - 1; the rows without a target are exactly the last
\* min(h, L).
TargetsDefinedUpToHorizon ==
    bt_done =>
        LET L == Len(bt_close)
            h == bt_horizon
        IN  /\ Len(bt_target) = L
            /\ \A t \in 1..L :
                  /\ ~bt_target[t].nan <=> t + h <= L
                  /\ t + h <= L =>
                        bt_target[t].r =
                            RSub(RDiv(bt_close[t + h].r, bt_close[t].r), RInt(1))
            /\ { t \in 1..L : bt_target[t].nan } = (L - IMin(h, L) + 1)..L

\* C20 witness: a series longer than the horizon, with a non-zero target on
\* its first row and none on its last.
TargetDefinedThenMissing ==
    /\ bt_done /\ bt_horizon > 1 /\ Len(bt_close) > bt_horizon
    /\ ~bt_target[1].nan /\ bt_target[1].r[1] # 0
    /\ bt_target[Len(bt_close)].nan

----------------------------------------------------------------------------
(* Properties of training runs.                                            *)

\* C19 (as claimed): a run whose feature table has fewer than MinTrainDates
\* distinct dates is stopped in every entry point: it creates no version
\* directory, writes no artifact and no meta, and does not touch LATEST.
ThinTableNeverPublished ==
    /\ wpc >= 2 => wrun \notin thin
    /\ \A v \in Versions :
          /\ fs.npz[v].st = "full" => fs.npz[v].run \notin thin
          /\ fs.meta[v].st = "full" => fs.meta[v].run \notin thin
    /\ \A p \in pubs : p.run \notin thin

----------------------------------------------------------------------------
(* Properties of sync_ohlcv.                                               *)

\* C21 (as claimed): whenever the local OHLCV file exists when sync_ohlcv
\* returns (already there, just downloaded, or left by an interrupted
\* download), sync_ohlcv returns True, whatever the bucket and URL settings.
TrueWheneverLocalFileExists ==
    (so.pc = "returned" /\ so.file.st # "missing") => so.ret = TRUE

----------------------------------------------------------------------------
(* Properties of sync_eod.                                                 *)

\* sync_eod has just returned the latest.json it fetched, which is not empty
SyncReturnedMeta == spc = "load" /\ sjson.run # 0

\* C22 (as claimed): after sync_eod returns non-empty metadata, the local
\* data directory holds features.parquet, the named version's model.npz and
\* meta.json and the LATEST pointer, and the pointer resolves to a version
\* whose files are present.
SyncLeavesSnapshotOnDisk ==
    SyncReturnedMeta =>
        /\ fs.features.st # "missing"
        /\ fs.npz[sjson.ver].st # "missing"
        /\ fs.meta[sjson.ver].st # "missing"
        /\ fs.latest.st # "missing"
        /\ latest_dir(fs) # NoVersion
        /\ fs.npz[latest_dir(fs)].st # "missing"
        /\ fs.meta[latest_dir(fs)].st # "missing"

----------------------------------------------------------------------------
(* Properties of the upload run of publish_eod.main.                       *)

\* the bucket holds this run's features.parquet, model.npz, meta.json, LATEST
\* pointer and OHLCV snapshots
RunUploaded ==
    /\ remote.features = FullFile(urun)
    /\ remote.npz[uver] = FullFile(urun)
    /\ remote.meta[uver] = FullFile(urun)
    /\ remote.latest = Ptr(uver)
    /\ remote.ohlcv = FullFile(urun)

\* C26: in an upload run the remote latest.json changes only in a step taken
\* when features.parquet, the version's model.npz and meta.json, the LATEST
\* pointer and the OHLCV snapshots of this run are all in the bucket, and it
\* then names this run; a step that ends the run before that (an upload
\* failed) leaves the remote latest.json as it was.
LatestJsonUploadedLast ==
    [][ /\ remote'.latest_json # remote.latest_json =>
              (RunUploaded /\ remote'.latest_json = [ver |-> uver, run |-> urun])
        /\ (upc >= 1 /\ upc' = 0 /\ ~RunUploaded) =>
              remote'.latest_json = remote.latest_json ]_vars

\* the second run failed after uploading its features, pointer and model
\* files; latest.json still names the first run
FailedRunKeepsLatestJson ==
    /\ upc = 0 /\ urun = 2
    /\ remote.features = FullFile(2)
    /\ remote.latest = Ptr(uver)
    /\ remote.ohlcv # FullFile(2)
    /\ remote.latest_json.run = 1

----------------------------------------------------------------------------
(* Properties of sync_eod running while an upload run is in progress.      *)

\* C27 (as claimed): when sync_eod returns the latest.json it fetched, the
\* local features.parquet, the local files of the named version and the local
\* LATEST pointer all belong to the run that latest.json names: the pointer
\* names latest.json's model_version and the features are of that run.
SyncedSnapshotIsOneRun ==
    SyncReturnedMeta =>
        /\ fs.latest.st = "full" => fs.latest.v = sjson.ver
        /\ fs.features.st = "full" => fs.features.run = sjson.run
        /\ fs.npz[sjson.ver].st = "full" => fs.npz[sjson.ver].run = sjson.run
        /\ fs.meta[sjson.ver].st = "full" => fs.meta[sjson.ver].run = sjson.run

----------------------------------------------------------------------------
(* Properties of the persisted feature table.                              *)

\* the last row number of any symbol's price history
RECURSIVE LatestPriceDate(_, _)
LatestPriceDate(close, i) ==
    IF i > Len(close) THEN 0
    ELSE LET rest == LatestPriceDate(close, i + 1)
         IN  IF Len(close[i]) > rest THEN Len(close[i]) ELSE rest

\* C28 (as claimed): the table an entry point persists holds, for every
\* symbol with feature rows, the row of the symbol's last price date, whose
\* target is null; the table's maximum date is the latest price date.
PersistedTableKeepsLatestRows ==
    (ft.pc = "done" /\ ft.wrote) =>
        /\ \A i \in DOMAIN TableSymbols :
              build_features(ft.close[i]) # <<>> =>
                 \E k \in DOMAIN ft.table :
                    /\ ft.table[k].symbol = TableSymbols[i]
                    /\ ft.table[k].date = Len(ft.close[i])
                    /\ ft.table[k].target.nan
        /\ \E k \in DOMAIN ft.table :
              ft.table[k].date = LatestPriceDate(ft.close, 1)

----------------------------------------------------------------------------
(* Properties of an EOD publisher run that training refuses.               *)

\* C29 (as claimed): when a publish_eod run has stopped because _train_ridge
\* found fewer than MinTrainDates dates, the data directory is as it was
\* before the run: features.parquet, every version directory and the LATEST
\* pointer are unchanged.  (eod_latest.json is written only after
\* _write_model, which such a run never reaches, and is not part of fs.)
RefusedRunLeavesDataDir ==
    (tentry = "none" /\ trun.stopped = "not_enough_dates") => fs = trun.before

----------------------------------------------------------------------------
(* Properties of build_long_short under reordering of its input mappings.  *)

\* a weight map as a set of symbol-weight pairs
Pairs(w) == { <<w[i].k, w[i].v>> : i \in DOMAIN w }

\* C30 (as claimed): two calls with the same constraints and mappings that
\* hold the same symbol-value pairs in different iteration orders return the
\* same weight map, ties at the long_n or short_n cut-off included.
SameWeightsInAnyOrder ==
    pf_done /\ pf2.preds # <<>> => Pairs(pf_w) = Pairs(pf2.w)

====
